---- MODULE Spec2Model ----
(***************************************************************************)
(* A model of the Scene+ engine: the retail transaction transformer        *)
(* (data_pipeline/transformers), the customer segmentation model           *)
(* (models/customer_segmentation.py) and the offer recommendation engine   *)
(* (models/recommendation.py).                                             *)
(*                                                                         *)
(* Each component has its own specification (SpecTransform, SpecSeg,       *)
(* SpecOffers); no operation of one component touches the state of         *)
(* another.                                                                *)
(*                                                                         *)
(* Conventions.  A DataFrame is a record [cols, rows]: the set of its      *)
(* column names and the sequence of its rows.  Python's None is the string *)
(* "None".  A raised exception is the name of its class.  Text is a        *)
(* sequence of one-character tokens.  Real numbers are exact rationals,    *)
(* compared by cross-multiplication, or fixed-point integers where a       *)
(* square root is taken (segmentation scaler).                             *)
(***************************************************************************)
EXTENDS Integers, Sequences, FiniteSets, TLC

VARIABLES
    \* RetailTransformer
    error_records,      \* BaseTransformer.error_records
    t_pc,               \* "idle" | "done": position of the caller of transform
    t_data,             \* the raw batch handed to transform
    t_outcome,          \* "none" | "returned" | "raised"
    t_exc,              \* class of the exception transform raised, or "None"
    t_valid,            \* rows of the DataFrame transform returned
    \* CustomerSegmentation
    n_clusters,         \* self.n_clusters
    scaler,             \* self.scaler: the StandardScaler and its fitted parameters
    model,              \* self.model: None, an unfitted KMeans, or a fitted one
    last_trained,       \* self.last_trained: <<>> for None, <<t>> for a time
    s_now,              \* the clock datetime.now() reads in train
    train_call,         \* outcome of the last train call: [outcome, exc]
    calls,              \* the predict call of each thread: pc, input, locals, outcome
    trained_scaler,     \* history: the scaler as the last successful train left it
    scaler0,            \* history: the scaler when the running predict calls began
    model_params,       \* self.model_params: the n_clusters entry of the dict
    saved_file,         \* the file save_model wrote: <<>> or <<its content>>
    saver,              \* history: n_clusters and scaler of the instance that saved
    loads,              \* how many times a fresh instance loaded the file
    s_call,             \* the last save, load, profile or preprocess call
    \* RecommendationEngine
    o_pc,               \* "idle" | "done": position of the caller of generate_offers
    o_customer_data,    \* argument customer_data
    o_segment_data,     \* argument segment_data
    o_n_offers,         \* argument n_offers
    o_now,              \* the clock datetime.now() reads in preprocess_data
    o_outcome,          \* "none" | "returned" | "raised"
    o_exc,              \* class of the exception generate_offers raised, or "None"
    o_cause,            \* class of the exception it caught and wrapped, or "None"
    o_offers,           \* the dict generate_offers returned
    o_calls,            \* history: the calls of _generate_customer_offers
    o_direct,           \* a call of one helper of the engine by itself: fn, arguments, result
    \* API (api/endpoints.py)
    a_pc,               \* "idle" | "body" | "raised" | "escaped" | "responded"
    a_req,              \* the request being served
    a_exc,              \* the exception in flight: <<>> or <<[cls, status_code]>>
    a_status            \* status code of the response, 0 before there is one

svars == <<n_clusters, scaler, model, last_trained, s_now, train_call, calls,
          model_params, saved_file, saver, loads, s_call,
           trained_scaler, scaler0>>

tvars == <<error_records, t_pc, t_data, t_outcome, t_exc, t_valid>>

ovars == <<o_pc, o_customer_data, o_segment_data, o_n_offers, o_now, o_outcome,
           o_exc, o_cause, o_offers, o_calls, o_direct>>

avars == <<a_pc, a_req, a_exc, a_status>>

None == "None"

-----------------------------------------------------------------------------
(* Sequence helpers *)

Range(s) == {s[i] : i \in 1..Len(s)}

RECURSIVE SeqsUpTo(_, _)
SeqsUpTo(S, n) ==
    IF n = 0 THEN {<<>>}
    ELSE LET shorter == SeqsUpTo(S, n - 1)
         IN shorter \cup {Append(s, x) : s \in {t \in shorter : Len(t) = n - 1}, x \in S}

-----------------------------------------------------------------------------
(* Exception classes (transformers/base.py, models/base.py) *)

\* class -> direct base class
ExcBase(c) ==
    CASE c = "TransformerError"            -> "Exception"
      [] c = "TransformerValidationError"  -> "TransformerError"
      [] c = "TransformationError"         -> "TransformerError"
      [] c = "PydanticValidationError"     -> "ValueError"
      [] c = "ModelError"                  -> "Exception"
      [] c = "FeatureError"                -> "ModelError"
      [] c = "PredictionError"             -> "ModelError"
      [] c = "ValueError"                  -> "Exception"
      [] c = "KeyError"                    -> "Exception"
      [] c = "AttributeError"              -> "Exception"
      [] c = "NameError"                   -> "Exception"
      [] c = "NotFittedError"              -> "ValueError"
      [] c = "HTTPException"               -> "Exception"
      [] OTHER                             -> "BaseException"

RECURSIVE IsInstance(_, _)
IsInstance(exc, cls) ==
    IF exc = cls THEN TRUE
    ELSE IF exc = "BaseException" THEN FALSE
    ELSE IsInstance(ExcBase(exc), cls)

-----------------------------------------------------------------------------
(* Items text and RetailTransformer._parse_items *)

DigitTokens == {"0", "1", "2"}
DigitVal(t) == IF t = "0" THEN 0 ELSE IF t = "1" THEN 1 ELSE 2

\* str.split(sep): the pieces of s between the occurrences of sep
RECURSIVE Split(_, _)
Split(s, sep) ==
    IF \A i \in 1..Len(s) : s[i] # sep THEN <<s>>
    ELSE LET i == CHOOSE j \in 1..Len(s) :
                      s[j] = sep /\ \A k \in 1..(j - 1) : s[k] # sep
         IN <<SubSeq(s, 1, i - 1)>> \o Split(SubSeq(s, i + 1, Len(s)), sep)

\* int(text) / float(text) succeed on a non-empty run of digits
IsNumber(p) == Len(p) >= 1 /\ \A i \in 1..Len(p) : p[i] \in DigitTokens

RECURSIVE NumberVal(_)
NumberVal(p) ==
    IF Len(p) = 0 THEN 0
    ELSE 10 * NumberVal(SubSeq(p, 1, Len(p) - 1)) + DigitVal(p[Len(p)])

ItemKeys == {"sku", "quantity", "price"}

\* an element of a parsed items list: a dict with its keys, or another JSON value
Item(keys, q, p) == [isdict |-> TRUE, keys |-> keys, quantity |-> q, price |-> p]
NonDict == [isdict |-> FALSE, keys |-> {}, quantity |-> 0, price |-> 0]

\* json tokens: "F" is the text of an object with sku, quantity and price,
\* "P" the text of an object without price; a digit is a JSON number
JsonValueTokens == {"F", "P"} \cup DigitTokens
JsonValue(t) ==
    IF t = "F" THEN Item(ItemKeys, 1, 2)
    ELSE IF t = "P" THEN Item({"sku", "quantity"}, 1, 0)
    ELSE NonDict

\* json.loads on a bracketed text: [ok, value]
JsonLoads(s) ==
    LET inner == SubSeq(s, 2, Len(s) - 1)
        parts == Split(inner, ",")
    IN IF Len(s) < 2 THEN [ok |-> FALSE, items |-> <<>>]
       ELSE IF inner = <<>> THEN [ok |-> TRUE, items |-> <<>>]
       ELSE IF \A i \in 1..Len(parts) :
                   Len(parts[i]) = 1 /\ parts[i][1] \in JsonValueTokens
            THEN [ok |-> TRUE,
                  items |-> [i \in 1..Len(parts) |-> JsonValue(parts[i][1])]]
            ELSE [ok |-> FALSE, items |-> <<>>]

\* one piece of the pipe-separated format: sku, quantity, price = item_str.split(',')
PipeItemOk(item_str) ==
    LET f == Split(item_str, ",")
    IN Len(f) = 3 /\ IsNumber(f[2]) /\ IsNumber(f[3])

PipeItem(item_str) ==
    LET f == Split(item_str, ",")
    IN Item(ItemKeys, NumberVal(f[2]), NumberVal(f[3]))

\* items column values: [kind |-> "str", text |-> tokens] or [kind |-> "list", items |-> seq]
StrItems(text) == [kind |-> "str", text |-> text, items |-> <<>>]
ListItems(items) == [kind |-> "list", text |-> <<>>, items |-> items]
OtherItems == [kind |-> "other", text |-> <<>>, items |-> <<>>]

\* _parse_items: [ok, items]; ok = FALSE is TransformationError("Failed to parse items")
ParseItems(v) ==
    IF v.kind = "str" THEN
        IF Len(v.text) >= 1 /\ v.text[1] = "[" /\ v.text[Len(v.text)] = "]"
        THEN JsonLoads(v.text)
        ELSE LET pieces == Split(v.text, "|")
             IN IF \A i \in 1..Len(pieces) : PipeItemOk(pieces[i])
                THEN [ok |-> TRUE,
                      items |-> [i \in 1..Len(pieces) |-> PipeItem(pieces[i])]]
                ELSE [ok |-> FALSE, items |-> <<>>]
    ELSE IF v.kind = "list" THEN [ok |-> TRUE, items |-> v.items]
    ELSE [ok |-> FALSE, items |-> <<>>]

-----------------------------------------------------------------------------
(* RetailTransaction schema (validation/schemas.py) and BaseTransformer *)

\* the messages pydantic reports for a record, all fields together
SchemaErrors(record) ==
    (IF record.customer_id = None
     THEN {"customer_id: none is not an allowed value"} ELSE {})
    \cup
    (IF record.total_amount < 0
     THEN {"total_amount: ensure this value is greater than or equal to 0"} ELSE {})
    \cup
    (IF \E i \in 1..Len(record.items) : ~record.items[i].isdict
     THEN {"items: value is not a valid dict"}
     ELSE IF record.items = <<>>
     THEN {"items: Transaction must have at least one item"}
     ELSE IF \E i \in 1..Len(record.items) : ~(ItemKeys \subseteq record.items[i].keys)
     THEN {"items: Each item must have sku, quantity, and price"}
     ELSE {})

\* self.schema(**record): the class of the exception it raises, or None
SchemaRaises(record) ==
    IF SchemaErrors(record) = {} THEN None ELSE "PydanticValidationError"

\* The class the name ValidationError denotes inside transformers/base.py:
\* line 8 imports pydantic's ValidationError, line 18 then defines a class of
\* the same name, so the except clause of validate_record names the latter.
ValidationErrorInBase == "TransformerValidationError"

\* validate_record(record) on error list errs:
\* [exc: escaping exception or None, validated: the record or None, errors: the new list]
ValidateRecord(record, errs) ==
    LET exc == SchemaRaises(record)
    IN IF exc = None
       THEN [exc |-> None, validated |-> <<record>>, errors |-> errs]
       ELSE IF IsInstance(exc, ValidationErrorInBase)
       THEN [exc |-> None, validated |-> <<>>,
             errors |-> Append(errs, [record |-> record, error |-> SchemaErrors(record)])]
       ELSE [exc |-> exc, validated |-> <<>>, errors |-> errs]

\* the validation loop of transform over records[i..], from (valid, errs)
RECURSIVE ValidateLoop(_, _, _, _)
ValidateLoop(records, i, valid, errs) ==
    IF i > Len(records) THEN [exc |-> None, valid |-> valid, errors |-> errs]
    ELSE LET r == ValidateRecord(records[i], errs)
         IN IF r.exc # None
            THEN [exc |-> r.exc, valid |-> valid, errors |-> r.errors]
            ELSE ValidateLoop(records, i + 1, valid \o r.validated, r.errors)

\* the column conversions of transform on one row, items already parsed;
\* a raw points value is <<p>>, or <<>> when the cell is empty (fillna(0))
Coerce(row, items) ==
    [row EXCEPT !.points_earned = IF row.points_earned = <<>> THEN 0
                                   ELSE row.points_earned[1],
                !.items = items]

\* RetailTransformer.transform(data): [outcome, exc, valid, errors]
TransformResult(data) ==
    LET cleared == <<>>
        parsed  == [i \in 1..Len(data) |-> ParseItems(data[i].items)]
    IN IF \E i \in 1..Len(data) : ~parsed[i].ok
       THEN [outcome |-> "raised", exc |-> "TransformationError",
             valid |-> <<>>, errors |-> cleared]
       ELSE LET records == [i \in 1..Len(data) |-> Coerce(data[i], parsed[i].items)]
                v == ValidateLoop(records, 1, <<>>, cleared)
            IN IF v.exc # None
               THEN [outcome |-> "raised", exc |-> "TransformationError",
                     valid |-> <<>>, errors |-> v.errors]
               ELSE IF v.valid = <<>>
               THEN [outcome |-> "raised", exc |-> "TransformationError",
                     valid |-> <<>>, errors |-> v.errors]
               ELSE [outcome |-> "returned", exc |-> None,
                     valid |-> v.valid, errors |-> v.errors]

-----------------------------------------------------------------------------
(* Raw retail batches *)

MaxBatch == 2

GoodItem == Item(ItemKeys, 1, 2)

\* items values: lists, the two supported text encodings, and other text
PipeOne    == StrItems(<<"a", ",", "1", ",", "2">>)
PipeTwo    == StrItems(<<"a", ",", "1", ",", "2", "|", "b", ",", "2", ",", "1">>)
JsonOne    == StrItems(<<"[", "F", "]">>)
JsonNoKey  == StrItems(<<"[", "P", "]">>)
JsonEmpty  == StrItems(<<"[", "]">>)
BadJson    == StrItems(<<"[", "a", "]">>)
BadPipe    == StrItems(<<"a", ",", "b", ",", "2">>)
FreeText   == StrItems(<<"a", "b">>)

RawRow(cust, amount, points, items) ==
    [transaction_id |-> 0, customer_id |-> cust, total_amount |-> amount,
     points_earned |-> points, items |-> items]

\* a good row, and rows that differ from it in one field
RawRows ==
    {RawRow("c1", 5, <<3>>, ListItems(<<GoodItem>>)),
     RawRow("c1", 0, <<>>, PipeOne),
     RawRow("c2", 5, <<3>>, PipeTwo),
     RawRow("c2", 5, <<3>>, JsonOne),
     RawRow("c1", -1, <<3>>, ListItems(<<GoodItem>>)),
     RawRow(None, 5, <<3>>, ListItems(<<GoodItem>>)),
     RawRow("c1", 5, <<3>>, ListItems(<<>>)),
     RawRow("c1", 5, <<3>>, JsonEmpty),
     RawRow("c1", 5, <<3>>, JsonNoKey),
     RawRow("c1", -1, <<3>>, JsonEmpty),
     RawRow("c1", 5, <<-1>>, ListItems(<<Item(ItemKeys, 0, 2)>>)),
     RawRow("c1", 5, <<3>>, BadJson),
     RawRow("c1", 5, <<3>>, BadPipe),
     RawRow("c1", 5, <<3>>, FreeText),
     RawRow("c1", 5, <<3>>, OtherItems)}

\* batches of 1..MaxBatch rows; transaction_id is the row's position
RawBatches ==
    {[i \in 1..Len(b) |-> [b[i] EXCEPT !.transaction_id = i]] :
        b \in SeqsUpTo(RawRows, MaxBatch) \ {<<>>}}

-----------------------------------------------------------------------------
(* RetailTransformer: the state machine *)

TInit ==
    /\ error_records = <<>>
    /\ t_pc = "idle"
    /\ t_data = <<>>
    /\ t_outcome = "none"
    /\ t_exc = None
    /\ t_valid = <<>>

\* transformer.transform(data)
Transform(data) ==
    /\ t_pc = "idle"
    /\ LET r == TransformResult(data)
       IN /\ error_records' = r.errors
          /\ t_outcome' = r.outcome
          /\ t_exc' = r.exc
          /\ t_valid' = r.valid
    /\ t_data' = data
    /\ t_pc' = "done"
    /\ UNCHANGED <<svars, ovars, avars>>

\* transformer.clear_errors(), after the caller has read the result
ClearErrors ==
    /\ t_pc = "done"
    /\ error_records' = <<>>
    /\ t_pc' = "idle"
    /\ t_data' = <<>>
    /\ t_outcome' = "none"
    /\ t_exc' = None
    /\ t_valid' = <<>>
    /\ UNCHANGED <<svars, ovars, avars>>

TNext ==
    \/ \E data \in RawBatches : Transform(data)
    \/ ClearErrors

-----------------------------------------------------------------------------
(* RetailTransformer: properties *)

\* what a row is, judged by the supported encodings and the schema alone
RowParses(row)      == ParseItems(row.items).ok
RowPasses(row)      == RowParses(row)
                       /\ SchemaErrors(Coerce(row, ParseItems(row.items).items)) = {}
RowFailsSchema(row) == RowParses(row)
                       /\ SchemaErrors(Coerce(row, ParseItems(row.items).items)) # {}

TransformDone == t_pc = "done"

ValidIds == {t_valid[i].transaction_id : i \in 1..Len(t_valid)}
ErrorIds == {error_records[i].record.transaction_id : i \in 1..Len(error_records)}
IdsWhere(P(_)) == {t_data[i].transaction_id : i \in {j \in 1..Len(t_data) : P(t_data[j])}}

\* C1: on a batch whose rows all parse, with at least one row passing the schema
\* and at least one failing it, transform does not raise: it returns the passing
\* rows and reports each failing row with its error text.
C1_MixedBatchIsolated ==
    (/\ TransformDone
     /\ \A i \in 1..Len(t_data) : RowParses(t_data[i])
     /\ \E i \in 1..Len(t_data) : RowPasses(t_data[i])
     /\ \E i \in 1..Len(t_data) : RowFailsSchema(t_data[i]))
    => /\ t_outcome = "returned"
       /\ ValidIds = IdsWhere(RowPasses)
       /\ ErrorIds = IdsWhere(RowFailsSchema)
       /\ \A i \in 1..Len(error_records) : error_records[i].error # {}

\* items given as text that is in neither supported encoding
UnsupportedText(row) == row.items.kind = "str" /\ ~RowParses(row)

\* C2: a row whose items text is in neither supported encoding becomes an error
\* record for that row only: on a batch of such rows and rows that pass,
\* transform does not raise, the rows that pass are returned and each such
\* row is in the error report.
C2_ParseErrorIsolated ==
    (/\ TransformDone
     /\ \A i \in 1..Len(t_data) : UnsupportedText(t_data[i]) \/ RowPasses(t_data[i])
     /\ \E i \in 1..Len(t_data) : UnsupportedText(t_data[i])
     /\ \E i \in 1..Len(t_data) : RowPasses(t_data[i]))
    => /\ t_outcome = "returned"
       /\ ValidIds = IdsWhere(RowPasses)
       /\ ErrorIds = IdsWhere(UnsupportedText)

\* C3: whenever transform returns, the returned rows and the error report
\* partition the input (sizes add up, no row in both); a batch with exactly one
\* row failing the schema among otherwise passing rows gives n-1 valid rows and
\* exactly 1 error record.
C3_OutputsPartitionInput ==
    /\ (TransformDone /\ t_outcome = "returned")
         => /\ Len(t_valid) + Len(error_records) = Len(t_data)
            /\ ValidIds \cap ErrorIds = {}
    /\ (/\ TransformDone
        /\ Len(t_data) >= 2
        /\ Cardinality(IdsWhere(RowFailsSchema)) = 1
        /\ Cardinality(IdsWhere(RowPasses)) = Len(t_data) - 1)
         => /\ t_outcome = "returned"
            /\ Len(t_valid) = Len(t_data) - 1
            /\ Len(error_records) = 1

\* what the code does instead: a batch with a row that fails the schema or
\* does not parse makes transform raise TransformationError, with no rows
\* returned and nothing in the error report
TransformAllOrNothing ==
    TransformDone =>
        /\ error_records = <<>>
        /\ (t_outcome = "returned") = (\A i \in 1..Len(t_data) : RowPasses(t_data[i]))
        /\ t_outcome = "raised" => t_exc = "TransformationError" /\ t_valid = <<>>

-----------------------------------------------------------------------------
(* Arithmetic helpers *)

\* fixed-point: the real number x is the integer x * FixedOne, rounded down
FixedOne == 100
Fx(num, den) == (num * FixedOne) \div den

Max(S) == CHOOSE x \in S : \A y \in S : y <= x
Min(S) == CHOOSE x \in S : \A y \in S : x <= y

RECURSIVE SortAsc(_)
SortAsc(S) ==
    IF S = {} THEN <<>>
    ELSE <<Min(S)>> \o SortAsc(S \ {Min(S)})

\* the sum of f[i] over i in S
RECURSIVE SumOver(_, _)
SumOver(f, S) ==
    IF S = {} THEN 0
    ELSE LET i == CHOOSE j \in S : TRUE
         IN f[i] + SumOver(f, S \ {i})

\* floor of the square root (Newton's iteration from above)
RECURSIVE Newton(_, _)
Newton(v, x) ==
    LET y == (x + v \div x) \div 2
    IN IF y >= x THEN x ELSE Newton(v, y)
ISqrt(v) == IF v <= 0 THEN 0 ELSE Newton(v, v)

-----------------------------------------------------------------------------
(* Transaction batches: the input of both models *)

\* customer ids are numbers, ordered as the id strings sort; a timestamp is a
\* day number; items is the list of purchased items
Tx(c, day, amount, banner, points, n) ==
    [customer_id |-> c, transaction_timestamp |-> day, total_amount |-> amount,
     banner |-> banner, points_earned |-> points, items |-> [i \in 1..n |-> GoodItem]]

TxColumns ==
    {"customer_id", "transaction_timestamp", "total_amount", "banner",
     "points_earned", "items"}

Frame(cols, rows) == [cols |-> cols, rows |-> rows]

CustomerIds(rows) == {rows[i].customer_id : i \in 1..Len(rows)}
RowsOf(rows, c) == {i \in 1..Len(rows) : rows[i].customer_id = c}

-----------------------------------------------------------------------------
(* CustomerSegmentation: preprocess_data and engineer_features *)

SegFeatureColumns ==
    {"total_spend", "visit_frequency", "points_balance", "points_redemption_rate",
     "cross_banner_shopping", "basket_size", "days_since_last_visit",
     "product_categories_count"}

SegRequiredColumns ==
    {"customer_id", "transaction_timestamp", "total_amount", "banner",
     "points_earned", "items"}

\* an aggregate that counts the distinct timestamps of customer c
SegProfileCountsDays(rows, c) ==
    LET mine == RowsOf(rows, c)
        current_date == Max({rows[i].transaction_timestamp : i \in 1..Len(rows)})
        last == Max({rows[i].transaction_timestamp : i \in mine})
    IN [customer_id |-> c,
        transaction_count |-> Cardinality({rows[i].transaction_timestamp : i \in mine}),
        last_transaction_date |-> last,
        days_since_last_visit |-> current_date - last,
        total_spend |-> SumOver([i \in mine |-> rows[i].total_amount], mine),
        total_points |-> SumOver([i \in mine |-> rows[i].points_earned], mine),
        unique_banners |-> Cardinality({rows[i].banner : i \in mine}),
        total_items |-> SumOver([i \in mine |-> Len(rows[i].items)], mine)]

\* an aggregate that measures the days from the first visit of customer c
SegProfileSinceFirstVisit(rows, c) ==
    LET mine == RowsOf(rows, c)
        current_date == Max({rows[i].transaction_timestamp : i \in 1..Len(rows)})
        last == Max({rows[i].transaction_timestamp : i \in mine})
        first == Min({rows[i].transaction_timestamp : i \in mine})
    IN [customer_id |-> c,
        transaction_count |-> Cardinality(mine),
        last_transaction_date |-> last,
        days_since_last_visit |-> current_date - first,
        total_spend |-> SumOver([i \in mine |-> rows[i].total_amount], mine),
        total_points |-> SumOver([i \in mine |-> rows[i].points_earned], mine),
        unique_banners |-> Cardinality({rows[i].banner : i \in mine}),
        total_items |-> SumOver([i \in mine |-> Len(rows[i].items)], mine)]

\* the aggregate row of customer c; means are kept as sum and count
SegProfile(rows, c) ==
    LET mine == RowsOf(rows, c)
        current_date == Max({rows[i].transaction_timestamp : i \in 1..Len(rows)})
        last == Max({rows[i].transaction_timestamp : i \in mine})
    IN [customer_id |-> c,
        transaction_count |-> Cardinality(mine),
        last_transaction_date |-> last,
        days_since_last_visit |-> current_date - last,
        total_spend |-> SumOver([i \in mine |-> rows[i].total_amount], mine),
        total_points |-> SumOver([i \in mine |-> rows[i].points_earned], mine),
        unique_banners |-> Cardinality({rows[i].banner : i \in mine}),
        total_items |-> SumOver([i \in mine |-> Len(rows[i].items)], mine)]

\* a preprocess_data whose list of required columns lacks 'items'
SegPreprocessForgetsItems(data) ==
    IF ~((SegRequiredColumns \ {"items"}) \subseteq data.cols)
    THEN [exc |-> "FeatureError", rows |-> <<>>]
    ELSE LET ids == SortAsc(CustomerIds(data.rows))
         IN [exc |-> None,
             rows |-> [k \in 1..Len(ids) |-> SegProfile(data.rows, ids[k])]]

\* preprocess_data: [exc, rows], one row per customer in id order
SegPreprocess(data) ==
    IF ~(SegRequiredColumns \subseteq data.cols)
    THEN [exc |-> "FeatureError", rows |-> <<>>]
    ELSE LET ids == SortAsc(CustomerIds(data.rows))
         IN [exc |-> None,
             rows |-> [k \in 1..Len(ids) |-> SegProfile(data.rows, ids[k])]]

\* the length in days of the range of last transaction dates
DateRangeDays(profiles) ==
    LET last == {profiles[i].last_transaction_date : i \in 1..Len(profiles)}
    IN Max(last) - Min(last)

\* the unscaled feature table of engineer_features (lines 103-127):
\* finite = FALSE when a division by zero puts an infinity in it
SegRawFeatures(profiles) ==
    LET days == DateRangeDays(profiles)
        finite == days # 0 /\ \A i \in 1..Len(profiles) : profiles[i].total_spend # 0
        Row(p) ==
            [total_spend |-> Fx(p.total_spend, 1),
             \* transaction_count / (days / 30)
             visit_frequency |-> Fx(30 * p.transaction_count, days),
             points_balance |-> Fx(p.total_points, 1),
             \* (total_points / count) / (total_spend / count)
             points_redemption_rate |-> Fx(p.total_points, p.total_spend),
             cross_banner_shopping |-> Fx(p.unique_banners, 1),
             basket_size |-> Fx(p.total_items, p.transaction_count),
             days_since_last_visit |-> Fx(p.days_since_last_visit, 1),
             \* unique_banners * average_basket_size
             product_categories_count |-> Fx(p.unique_banners * p.total_items,
                                             p.transaction_count)]
    IN IF finite
       THEN [finite |-> TRUE, X |-> [i \in 1..Len(profiles) |-> Row(profiles[i])]]
       ELSE [finite |-> FALSE, X |-> <<>>]

-----------------------------------------------------------------------------
(* sklearn StandardScaler and KMeans, as the models use them *)

ZeroVector == [f \in SegFeatureColumns |-> 0]
UnfittedScaler == [fitted |-> FALSE, mean_ |-> ZeroVector, scale_ |-> ZeroVector]

\* StandardScaler.fit on a finite table X: column means and standard deviations,
\* a zero deviation replaced by 1
ScalerFit(X) ==
    LET n == Len(X)
        mean == [f \in SegFeatureColumns |->
                    SumOver([i \in 1..n |-> X[i][f]], 1..n) \div n]
        var == [f \in SegFeatureColumns |->
                    SumOver([i \in 1..n |-> (X[i][f] - mean[f]) * (X[i][f] - mean[f])],
                            1..n) \div n]
    IN [fitted |-> TRUE,
        mean_ |-> mean,
        scale_ |-> [f \in SegFeatureColumns |->
                        IF ISqrt(var[f]) = 0 THEN FixedOne ELSE ISqrt(var[f])]]

\* StandardScaler.transform: (x - mean_) / scale_
ScalerTransform(sc, X) ==
    [i \in 1..Len(X) |->
        [f \in SegFeatureColumns |-> ((X[i][f] - sc.mean_[f]) * FixedOne) \div sc.scale_[f]]]

\* StandardScaler.inverse_transform: x * scale_ + mean_
ScalerInverse(sc, C) ==
    [i \in 1..Len(C) |->
        [f \in SegFeatureColumns |-> (C[i][f] * sc.scale_[f]) \div FixedOne + sc.mean_[f]]]

Dist2(a, b) ==
    SumOver([f \in SegFeatureColumns |-> (a[f] - b[f]) * (a[f] - b[f])], SegFeatureColumns)

\* the labelings of n points with k clusters, none empty, clusters numbered in
\* the order of their first point
Labelings(n, k) ==
    {l \in [1..n -> 0..(k - 1)] :
        /\ \A j \in 0..(k - 1) : \E i \in 1..n : l[i] = j
        /\ \A j \in 1..(k - 1) :
              Min({i \in 1..n : l[i] = j - 1}) < Min({i \in 1..n : l[i] = j})}

Centroid(X, l, j) ==
    LET members == {i \in 1..Len(X) : l[i] = j}
    IN [f \in SegFeatureColumns |->
            SumOver([i \in members |-> X[i][f]], members) \div Cardinality(members)]

Inertia(X, l) ==
    SumOver([i \in 1..Len(X) |-> Dist2(X[i], Centroid(X, l, l[i]))], 1..Len(X))

\* KMeans(n_clusters = k).fit(X): [exc, centers]; the centers of a partition of
\* least within-cluster sum of squares, centers[j + 1] for segment j
KMeansFit(X, k) ==
    IF Len(X) < k THEN [exc |-> "ValueError", centers |-> <<>>]
    ELSE LET best == CHOOSE l \in Labelings(Len(X), k) :
                        \A m \in Labelings(Len(X), k) : Inertia(X, l) <= Inertia(X, m)
         IN [exc |-> None, centers |-> [j \in 1..k |-> Centroid(X, best, j - 1)]]

\* a predict that numbers the centers from 1
KMeansPredictFromOne(centers, X) ==
    [i \in 1..Len(X) |->
        Min({j \in 1..Len(centers) :
                \A m \in 1..Len(centers) :
                    Dist2(X[i], centers[j]) <= Dist2(X[i], centers[m])})]

\* KMeans.predict: the index of the nearest center, the lowest on a tie
KMeansPredict(centers, X) ==
    [i \in 1..Len(X) |->
        Min({j \in 0..(Len(centers) - 1) :
                \A m \in 0..(Len(centers) - 1) :
                    Dist2(X[i], centers[j + 1]) <= Dist2(X[i], centers[m + 1])})]

-----------------------------------------------------------------------------
(* CustomerSegmentation: inputs *)

MaxClusters == 3
MaxTrain == 2

Threads == {"A", "B"}

\* the transaction batches handed to train and predict
SegFrame(d) ==
    CASE d = "D1" -> Frame(TxColumns,
                       <<Tx(1, 0, 2, "sobeys", 1, 1), Tx(2, 30, 10, "safeway", 8, 2)>>)
      [] d = "D2" -> Frame(TxColumns,
                       <<Tx(1, 0, 40, "sobeys", 30, 3), Tx(2, 60, 50, "sobeys", 45, 3),
                         Tx(3, 90, 30, "safeway", 20, 4), Tx(3, 120, 30, "iga", 30, 4)>>)
      \* one day only: the range of last transaction dates is empty
      [] d = "D3" -> Frame(TxColumns,
                       <<Tx(1, 5, 3, "sobeys", 1, 1), Tx(2, 5, 7, "iga", 2, 1)>>)
      \* no items column
      [] d = "D4" -> Frame(TxColumns \ {"items"},
                       <<Tx(1, 0, 2, "sobeys", 1, 1), Tx(2, 30, 10, "safeway", 8, 2)>>)

SegBatches == {"D1", "D2", "D3", "D4"}

-----------------------------------------------------------------------------
(* CustomerSegmentation: descriptions, train, predict *)

\* str.title() on the descriptors
Title(d) ==
    CASE d = "high spender"       -> "High Spender"
      [] d = "low spender"        -> "Low Spender"
      [] d = "frequent shopper"   -> "Frequent Shopper"
      [] d = "infrequent shopper" -> "Infrequent Shopper"
      [] d = "multi-banner"       -> "Multi-Banner"
      [] d = "points saver"       -> "Points Saver"
      [] d = "points redeemer"    -> "Points Redeemer"
      [] d = "average"            -> "Average"

\* a description that tests the redemption rate whatever the points balance
SegmentDescriptionBothPoints(center) ==
    LET characteristics ==
            (IF 2 * center.total_spend > FixedOne THEN <<"high spender">>
             ELSE IF 2 * center.total_spend < -FixedOne THEN <<"low spender">>
             ELSE <<>>)
            \o
            (IF 2 * center.visit_frequency > FixedOne THEN <<"frequent shopper">>
             ELSE IF 2 * center.visit_frequency < -FixedOne THEN <<"infrequent shopper">>
             ELSE <<>>)
            \o
            (IF 2 * center.cross_banner_shopping > FixedOne THEN <<"multi-banner">>
             ELSE <<>>)
            \o
            (IF 2 * center.points_balance > FixedOne THEN <<"points saver">> ELSE <<>>)
            \o
            (IF 2 * center.points_redemption_rate > FixedOne THEN <<"points redeemer">>
             ELSE <<>>)
        description == IF characteristics = <<>> THEN <<"average">> ELSE characteristics
    IN [i \in 1..Len(description) |-> Title(description[i])]

\* the description of one center: the title-cased descriptors that " & " joins
SegmentDescription(center) ==
    LET characteristics ==
            (IF 2 * center.total_spend > FixedOne THEN <<"high spender">>
             ELSE IF 2 * center.total_spend < -FixedOne THEN <<"low spender">>
             ELSE <<>>)
            \o
            (IF 2 * center.visit_frequency > FixedOne THEN <<"frequent shopper">>
             ELSE IF 2 * center.visit_frequency < -FixedOne THEN <<"infrequent shopper">>
             ELSE <<>>)
            \o
            (IF 2 * center.cross_banner_shopping > FixedOne THEN <<"multi-banner">>
             ELSE <<>>)
            \o
            (IF 2 * center.points_balance > FixedOne THEN <<"points saver">>
             ELSE IF 2 * center.points_redemption_rate > FixedOne THEN <<"points redeemer">>
             ELSE <<>>)
        description == IF characteristics = <<>> THEN <<"average">> ELSE characteristics
    IN [i \in 1..Len(description) |-> Title(description[i])]

\* _get_segment_descriptions: [exc, descriptions], descriptions[j + 1] for
\* segment j in range(n_clusters); iloc past the last center is an IndexError
GetSegmentDescriptions(centers, k) ==
    IF k > Len(centers) THEN [exc |-> "IndexError", descriptions |-> <<>>]
    ELSE [exc |-> None,
          descriptions |-> [j \in 1..k |-> SegmentDescription(centers[j])]]

NoModel == [state |-> "none", centers |-> <<>>]
UnfittedKMeans == [state |-> "unfitted", centers |-> <<>>]
FittedKMeans(centers) == [state |-> "fitted", centers |-> centers]

\* the names customer_segmentation.py binds from .base (line 11)
SegImportedNames == {"BaseModel", "ModelError", "FeatureError"}

\* raise Name(...) inside customer_segmentation.py: an unbound name is a NameError
SegRaise(name) == IF name \in SegImportedNames THEN name ELSE "NameError"

\* The pure parts of train and predict on each batch, computed once:
\* preprocess_data(data), the unscaled feature table, StandardScaler.fit on it
\* and KMeans(k).fit on its own standardization
Preprocessed == [d \in SegBatches |-> SegPreprocess(SegFrame(d))]
RawFeatures ==
    [d \in SegBatches |->
        IF Preprocessed[d].exc = None THEN SegRawFeatures(Preprocessed[d].rows)
        ELSE [finite |-> FALSE, X |-> <<>>]]
FittedOn ==
    [d \in SegBatches |->
        IF RawFeatures[d].finite THEN ScalerFit(RawFeatures[d].X) ELSE UnfittedScaler]
Clustered ==
    [d \in SegBatches |->
        [k \in 2..MaxClusters |->
            IF RawFeatures[d].finite
            THEN KMeansFit(ScalerTransform(FittedOn[d], RawFeatures[d].X), k)
            ELSE [exc |-> "ValueError", centers |-> <<>>]]]

\* train(data) on batch d from scaler sc and model m: [exc, scaler, model, trained]
TrainResult(d, sc, m, k) ==
    IF Preprocessed[d].exc # None
    THEN [exc |-> SegRaise("ModelError"), scaler |-> sc, model |-> m, trained |-> FALSE]
    ELSE IF ~RawFeatures[d].finite
    \* StandardScaler.fit resets the scaler, then rejects the infinite input
    THEN [exc |-> SegRaise("ModelError"), scaler |-> UnfittedScaler, model |-> m,
          trained |-> FALSE]
    ELSE IF Clustered[d][k].exc # None
    \* self.model already holds the new KMeans when its fit raises
    THEN [exc |-> SegRaise("ModelError"), scaler |-> FittedOn[d],
          model |-> UnfittedKMeans, trained |-> FALSE]
    ELSE [exc |-> None, scaler |-> FittedOn[d],
          model |-> FittedKMeans(Clustered[d][k].centers), trained |-> TRUE]

\* the rows predict returns for profiles, their labels and the descriptions;
\* a segment without a description maps to NaN (None)
PredictRows(profiles, segments, descriptions) ==
    [i \in 1..Len(profiles) |->
        [customer_id |-> profiles[i].customer_id,
         segment |-> segments[i],
         segment_description |->
            IF segments[i] + 1 <= Len(descriptions)
            THEN descriptions[segments[i] + 1] ELSE <<None>>]]

\* lines 183-196 of predict on scaled features: [exc, rows]
PredictTail(m, k, profiles, features) ==
    IF m.state = "none" THEN [exc |-> "AttributeError", rows |-> <<>>]
    ELSE IF m.state = "unfitted" THEN [exc |-> "NotFittedError", rows |-> <<>>]
    ELSE LET segments == KMeansPredict(m.centers, features)
             d == GetSegmentDescriptions(m.centers, k)
         IN IF d.exc # None THEN [exc |-> d.exc, rows |-> <<>>]
            ELSE [exc |-> None, rows |-> PredictRows(profiles, segments, d.descriptions)]

\* predict(data) on batch d, run without interference, from scaler sc and
\* model m: [exc, rows, features, scaler]
PredictAlone(d, sc, m, k) ==
    LET features == ScalerTransform(FittedOn[d], RawFeatures[d].X)
        tail == PredictTail(m, k, Preprocessed[d].rows, features)
    IN IF Preprocessed[d].exc # None
       THEN [exc |-> SegRaise("PredictionError"), rows |-> <<>>, features |-> <<>>,
             scaler |-> sc]
       ELSE IF ~RawFeatures[d].finite
       THEN [exc |-> SegRaise("PredictionError"), rows |-> <<>>, features |-> <<>>,
             scaler |-> UnfittedScaler]
       ELSE IF tail.exc # None
       THEN [exc |-> SegRaise("PredictionError"), rows |-> <<>>, features |-> <<>>,
             scaler |-> FittedOn[d]]
       ELSE [exc |-> None, rows |-> tail.rows, features |-> features,
             scaler |-> FittedOn[d]]

-----------------------------------------------------------------------------
(* CustomerSegmentation: the state machine *)

IdleCall == [pc |-> "idle", data |-> None, features |-> <<>>, outcome |-> "none",
             exc |-> None, result |-> <<>>]

MaxLoads == 1

NoSaver == [n_clusters |-> 0, scaler |-> UnfittedScaler]
IdleSCall == [fn |-> "none", data |-> None, outcome |-> "none", exc |-> None, rows |-> <<>>]

\* what save_model puts in the file (base.py lines 99-105): neither the scaler
\* nor self.n_clusters is among it
ModelData(m, trained, params) ==
    [model |-> m, feature_columns |-> SegFeatureColumns, target_column |-> None,
     last_trained |-> trained, model_params |-> params]

\* get_segment_profiles on scaler sc, model m and n_clusters k: [exc, rows];
\* nothing it raises after the first test is caught
SegmentProfiles(sc, m, k) ==
    IF m.state = "none" THEN [exc |-> SegRaise("ModelError"), rows |-> <<>>]
    \* an unfitted KMeans has no cluster_centers_
    ELSE IF m.state = "unfitted" THEN [exc |-> "AttributeError", rows |-> <<>>]
    ELSE IF ~sc.fitted THEN [exc |-> "NotFittedError", rows |-> <<>>]
    \* centers['segment'] = range(n_clusters) on a frame of another length
    ELSE IF k # Len(m.centers) THEN [exc |-> "ValueError", rows |-> <<>>]
    ELSE LET centers == ScalerInverse(sc, m.centers)
             d == GetSegmentDescriptions(m.centers, k)
         IN [exc |-> None,
             rows |-> [j \in 1..k |->
                         [center |-> centers[j], segment |-> j - 1,
                          description |-> d.descriptions[j]]]]

\* CustomerSegmentation(n_clusters)
SInit ==
    /\ n_clusters \in 2..MaxClusters
    /\ scaler = UnfittedScaler
    /\ model = NoModel
    /\ last_trained = <<>>
    /\ s_now = 1
    /\ train_call = [outcome |-> "none", exc |-> None]
    /\ calls = [t \in Threads |-> IdleCall]
    /\ model_params = n_clusters
    /\ saved_file = <<>>
    /\ saver = NoSaver
    /\ loads = 0
    /\ s_call = IdleSCall
    /\ trained_scaler = UnfittedScaler
    /\ scaler0 = UnfittedScaler

\* train(data); the caller does not run it beside a predict
Train(d) ==
    /\ \A t \in Threads : calls[t].pc = "idle"
    /\ s_call.fn = "none"
    /\ s_now <= MaxTrain
    /\ LET r == TrainResult(d, scaler, model, n_clusters)
       IN /\ scaler' = r.scaler
          /\ model' = r.model
          /\ last_trained' = IF r.trained THEN <<s_now>> ELSE last_trained
          /\ train_call' = [outcome |-> IF r.trained THEN "returned" ELSE "raised",
                            exc |-> r.exc]
          /\ trained_scaler' = IF r.trained THEN r.scaler ELSE trained_scaler
    /\ s_now' = s_now + 1
    /\ UNCHANGED <<n_clusters, calls, scaler0>>
    /\ UNCHANGED <<model_params, saved_file, saver, loads, s_call>>
    /\ UNCHANGED <<tvars, ovars, avars>>

Raised(c, name) ==
    [c EXCEPT !.pc = "done", !.outcome = "raised", !.exc = SegRaise(name)]

\* predict(data) of thread t, up to the call of fit_transform
PredictBegin(t, d) ==
    /\ calls[t].pc = "idle"
    /\ s_call.fn = "none"
    /\ LET pre == Preprocessed[d]
           c == [calls[t] EXCEPT !.data = d]
       IN calls' = [calls EXCEPT ![t] =
                        IF pre.exc # None THEN Raised(c, "PredictionError")
                        ELSE [c EXCEPT !.pc = "fit"]]
    /\ scaler0' = IF \A u \in Threads : calls[u].pc = "idle" THEN scaler ELSE scaler0
    /\ UNCHANGED <<n_clusters, scaler, model, last_trained, s_now, train_call,
                   trained_scaler>>
    /\ UNCHANGED <<model_params, saved_file, saver, loads, s_call>>
    /\ UNCHANGED <<tvars, ovars, avars>>

\* self.scaler.fit(features), the first half of fit_transform
PredictFit(t) ==
    /\ calls[t].pc = "fit"
    /\ LET raw == RawFeatures[calls[t].data]
       IN IF raw.finite
          THEN /\ scaler' = FittedOn[calls[t].data]
               /\ calls' = [calls EXCEPT ![t].pc = "transform"]
          ELSE /\ scaler' = UnfittedScaler
               /\ calls' = [calls EXCEPT ![t] = Raised(calls[t], "PredictionError")]
    /\ UNCHANGED <<n_clusters, model, last_trained, s_now, train_call,
                   trained_scaler, scaler0>>
    /\ UNCHANGED <<model_params, saved_file, saver, loads, s_call>>
    /\ UNCHANGED <<tvars, ovars, avars>>

\* self.scaler.transform(features), the second half, and the rest of predict
PredictFinish(t) ==
    /\ calls[t].pc = "transform"
    /\ LET profiles == Preprocessed[calls[t].data].rows
           raw == RawFeatures[calls[t].data]
           features == ScalerTransform(scaler, raw.X)
           tail == PredictTail(model, n_clusters, profiles, features)
       IN calls' = [calls EXCEPT ![t] =
                        IF ~scaler.fitted THEN Raised(calls[t], "PredictionError")
                        ELSE IF tail.exc # None THEN Raised(calls[t], "PredictionError")
                        ELSE [calls[t] EXCEPT !.pc = "done", !.outcome = "returned",
                                              !.features = features,
                                              !.result = tail.rows]]
    /\ UNCHANGED <<n_clusters, scaler, model, last_trained, s_now, train_call,
                   trained_scaler, scaler0>>
    /\ UNCHANGED <<model_params, saved_file, saver, loads, s_call>>
    /\ UNCHANGED <<tvars, ovars, avars>>

\* the caller of thread t takes the result
PredictReturn(t) ==
    /\ calls[t].pc = "done"
    /\ calls' = [calls EXCEPT ![t] = IdleCall]
    /\ UNCHANGED <<n_clusters, scaler, model, last_trained, s_now, train_call,
                   trained_scaler, scaler0>>
    /\ UNCHANGED <<model_params, saved_file, saver, loads, s_call>>
    /\ UNCHANGED <<tvars, ovars, avars>>

\* standardized values on, next to and away from the thresholds 0.5 and -0.5
AroundThresholds ==
    {-(FixedOne \div 2) - 1, -(FixedOne \div 2), 0, FixedOne \div 2, FixedOne \div 2 + 1}

\* centers that differ in the five components a description reads
GridCenters ==
    {[f \in SegFeatureColumns |->
        CASE f = "total_spend" -> a
          [] f = "visit_frequency" -> b
          [] f = "cross_banner_shopping" -> c
          [] f = "points_balance" -> d
          [] f = "points_redemption_rate" -> e
          [] OTHER -> 0] : a \in AroundThresholds, b \in AroundThresholds,
                           c \in AroundThresholds, d \in AroundThresholds,
                           e \in AroundThresholds}

\* an instance with two clusters holding a model fitted on some data: its
\* first center is drawn from the grid
DescribeInit ==
    /\ n_clusters = 2
    /\ scaler = UnfittedScaler
    /\ model \in {FittedKMeans(<<c, ZeroVector>>) : c \in GridCenters}
    /\ last_trained = <<1>>
    /\ s_now = 2
    /\ train_call = [outcome |-> "none", exc |-> None]
    /\ calls = [t \in Threads |-> IdleCall]
    /\ trained_scaler = UnfittedScaler
    /\ scaler0 = UnfittedScaler
    /\ model_params = 2
    /\ saved_file = <<>>
    /\ saver = NoSaver
    /\ loads = 0
    /\ s_call = IdleSCall

\* _get_segment_descriptions(features, range(n_clusters)) called by itself
GetSegmentDescriptionsCall ==
    /\ \A t \in Threads : calls[t].pc = "idle"
    /\ s_call.fn = "none"
    /\ model.state = "fitted"
    /\ LET r == GetSegmentDescriptions(model.centers, n_clusters)
       IN s_call' = [fn |-> "_get_segment_descriptions", data |-> None,
                     outcome |-> IF r.exc = None THEN "returned" ELSE "raised",
                     exc |-> r.exc, rows |-> r.descriptions]
    /\ UNCHANGED <<n_clusters, scaler, model, last_trained, s_now, train_call, calls,
                   trained_scaler, scaler0, model_params, saved_file, saver, loads>>
    /\ UNCHANGED <<tvars, ovars, avars>>

\* save_model(path); the caller runs it between other calls, on the instance
\* it built first
SaveModel ==
    /\ \A t \in Threads : calls[t].pc = "idle"
    /\ s_call.fn = "none"
    /\ loads = 0
    /\ IF model = NoModel
       THEN /\ s_call' = [IdleSCall EXCEPT !.fn = "save_model", !.outcome = "raised",
                                           !.exc = "ModelError"]
            /\ UNCHANGED <<saved_file, saver>>
       ELSE /\ saved_file' = <<ModelData(model, last_trained, model_params)>>
            /\ saver' = [n_clusters |-> n_clusters, scaler |-> scaler]
            /\ s_call' = [IdleSCall EXCEPT !.fn = "save_model", !.outcome = "returned"]
    /\ UNCHANGED <<n_clusters, scaler, model, last_trained, s_now, train_call, calls,
                   trained_scaler, scaler0, model_params, loads>>
    /\ UNCHANGED <<tvars, ovars, avars>>

\* fresh = CustomerSegmentation(k); fresh.load_model(path): from here on the
\* instance is the fresh one
LoadFresh(k) ==
    /\ \A t \in Threads : calls[t].pc = "idle"
    /\ s_call.fn = "none"
    /\ loads < MaxLoads
    /\ n_clusters' = k
    /\ scaler' = UnfittedScaler
    /\ IF saved_file = <<>>
       \* joblib.load finds no file
       THEN /\ model' = NoModel
            /\ last_trained' = <<>>
            /\ model_params' = k
            /\ s_call' = [IdleSCall EXCEPT !.fn = "load_model", !.outcome = "raised",
                                           !.exc = "ModelError"]
       ELSE /\ model' = saved_file[1].model
            /\ last_trained' = saved_file[1].last_trained
            /\ model_params' = saved_file[1].model_params
            /\ s_call' = [IdleSCall EXCEPT !.fn = "load_model", !.outcome = "returned"]
    /\ train_call' = [outcome |-> "none", exc |-> None]
    /\ trained_scaler' = UnfittedScaler
    /\ scaler0' = UnfittedScaler
    /\ loads' = loads + 1
    /\ UNCHANGED <<s_now, calls, saved_file, saver>>
    /\ UNCHANGED <<tvars, ovars, avars>>

\* get_segment_profiles()
GetSegmentProfiles ==
    /\ \A t \in Threads : calls[t].pc = "idle"
    /\ s_call.fn = "none"
    /\ LET r == SegmentProfiles(scaler, model, n_clusters)
       IN s_call' = [fn |-> "get_segment_profiles", data |-> None,
                     outcome |-> IF r.exc = None THEN "returned" ELSE "raised",
                     exc |-> r.exc, rows |-> r.rows]
    /\ UNCHANGED <<n_clusters, scaler, model, last_trained, s_now, train_call, calls,
                   trained_scaler, scaler0, model_params, saved_file, saver, loads>>
    /\ UNCHANGED <<tvars, ovars, avars>>

MaxSegRows == 3

\* the transactions a batch of preprocess_data is made of
SegTransactions ==
    {Tx(c, day, 10, banner, 5, 1) :
        c \in 1..2, day \in {0, 3, 10}, banner \in {"sobeys", "iga"}}

\* the batches handed to preprocess_data: up to MaxSegRows transactions with
\* every column, and the batch without the items column
PreprocessFrames ==
    {Frame(TxColumns, rows) :
        rows \in UNION {[1..n -> SegTransactions] : n \in 1..MaxSegRows}}
    \cup {SegFrame("D4")}

\* preprocess_data(data) called by itself on one of the batches
PreprocessData ==
    /\ \A t \in Threads : calls[t].pc = "idle"
    /\ s_call.fn = "none"
    /\ \E data \in PreprocessFrames :
          LET r == SegPreprocess(data)
          IN s_call' = [fn |-> "preprocess_data", data |-> data,
                        outcome |-> IF r.exc = None THEN "returned" ELSE "raised",
                        exc |-> r.exc, rows |-> r.rows]
    /\ UNCHANGED <<n_clusters, scaler, model, last_trained, s_now, train_call, calls,
                   trained_scaler, scaler0, model_params, saved_file, saver, loads>>
    /\ UNCHANGED <<tvars, ovars, avars>>

\* engineer_features(preprocess_data(data)) called by itself on batch d:
\* fit_transform fits self.scaler on the batch; sklearn rejects a table that
\* holds an infinity after it has reset the scaler
EngineerFeatures(d) ==
    /\ \A t \in Threads : calls[t].pc = "idle"
    /\ s_call.fn = "none"
    /\ IF Preprocessed[d].exc # None
       THEN /\ s_call' = [fn |-> "engineer_features", data |-> d, outcome |-> "raised",
                          exc |-> Preprocessed[d].exc, rows |-> <<>>]
            /\ UNCHANGED scaler
       ELSE IF ~RawFeatures[d].finite
       THEN /\ s_call' = [fn |-> "engineer_features", data |-> d, outcome |-> "raised",
                          exc |-> SegRaise("FeatureError"), rows |-> <<>>]
            /\ scaler' = UnfittedScaler
       ELSE /\ s_call' = [fn |-> "engineer_features", data |-> d, outcome |-> "returned",
                          exc |-> None,
                          rows |-> ScalerTransform(FittedOn[d], RawFeatures[d].X)]
            /\ scaler' = FittedOn[d]
    /\ UNCHANGED <<n_clusters, model, last_trained, s_now, train_call, calls,
                   trained_scaler, scaler0, model_params, saved_file, saver, loads>>
    /\ UNCHANGED <<tvars, ovars, avars>>

\* one batch under every choice of the columns it comes with
ColumnFrames ==
    {Frame(cols, SegFrame("D1").rows) : cols \in SUBSET SegRequiredColumns}

\* preprocess_data(data) called by itself on a batch that has some of the
\* columns
PreprocessDataColumns ==
    /\ \A t \in Threads : calls[t].pc = "idle"
    /\ s_call.fn = "none"
    /\ \E data \in ColumnFrames :
          LET r == SegPreprocess(data)
          IN s_call' = [fn |-> "preprocess_data", data |-> data,
                        outcome |-> IF r.exc = None THEN "returned" ELSE "raised",
                        exc |-> r.exc, rows |-> r.rows]
    /\ UNCHANGED <<n_clusters, scaler, model, last_trained, s_now, train_call, calls,
                   trained_scaler, scaler0, model_params, saved_file, saver, loads>>
    /\ UNCHANGED <<tvars, ovars, avars>>

\* the caller takes the result of the call
SCallTaken ==
    /\ s_call.fn # "none"
    /\ s_call' = IdleSCall
    /\ UNCHANGED <<n_clusters, scaler, model, last_trained, s_now, train_call, calls,
                   trained_scaler, scaler0, model_params, saved_file, saver, loads>>
    /\ UNCHANGED <<tvars, ovars, avars>>

SNext ==
    \/ \E d \in SegBatches : Train(d)
    \/ \E t \in Threads, d \in SegBatches : PredictBegin(t, d)
    \/ \E t \in Threads : PredictFit(t)
    \/ \E t \in Threads : PredictFinish(t)
    \/ \E t \in Threads : PredictReturn(t)

\* one caller using the model call after call, saving it and loading it into
\* a fresh instance (preprocess_data, which reads nothing of the instance, has
\* its own specification)
SerialNext ==
    \/ \E d \in SegBatches : Train(d)
    \/ \E d \in SegBatches : PredictBegin("A", d)
    \/ PredictFit("A")
    \/ PredictFinish("A")
    \/ PredictReturn("A")
    \/ SaveModel
    \/ \E k \in 2..MaxClusters : LoadFresh(k)
    \/ GetSegmentProfiles
    \/ \E d \in SegBatches : EngineerFeatures(d)
    \/ SCallTaken

-----------------------------------------------------------------------------
(* CustomerSegmentation: properties *)

NeverTrained == model = NoModel /\ last_trained = <<>> /\ train_call.outcome = "none"

\* C4: predict on an instance that was never trained or loaded raises ModelError
\* and returns no assignments.
C4_UntrainedPredictRaisesModelError ==
    \A t \in Threads :
        (calls[t].pc = "done" /\ NeverTrained)
        => /\ calls[t].outcome = "raised"
           /\ IsInstance(calls[t].exc, "ModelError")
           /\ calls[t].result = <<>>

\* what the code does there: the call ends in a NameError, which no handler
\* for ModelError catches
UntrainedPredictRaisesNameError ==
    \A t \in Threads :
        (calls[t].pc = "done" /\ NeverTrained)
        => calls[t].outcome = "raised" /\ calls[t].exc = "NameError"

\* C5: predict does not refit the scaler: a predict that returns has
\* standardized its input with the mean and scale the last train fitted, and
\* leaves the scaler as that train left it.
C5_PredictKeepsTrainedScaler ==
    \A t \in Threads :
        (calls[t].pc = "done" /\ calls[t].outcome = "returned")
        => /\ calls[t].features =
                ScalerTransform(trained_scaler, RawFeatures[calls[t].data].X)
           /\ scaler = trained_scaler

\* C6: concurrent predict calls on a trained instance only read it: each call
\* ends as it would running alone, and once the calls are over the scaler is
\* what it was before they began.
C6_ConcurrentPredictIsolated ==
    model.state = "fitted" =>
        /\ \A t \in Threads :
              calls[t].pc = "done" =>
                LET alone == PredictAlone(calls[t].data, scaler0, model, n_clusters)
                IN /\ (calls[t].outcome = "returned") = (alone.exc = None)
                   /\ calls[t].result = alone.rows
        /\ ((\A t \in Threads : calls[t].pc \in {"idle", "done"})
            /\ (\E t \in Threads : calls[t].pc = "done"))
              => scaler = scaler0

\* the two parts of C6, apart
ConcurrentPredictResultAsAlone ==
    model.state = "fitted" =>
        \A t \in Threads :
            calls[t].pc = "done" =>
                LET alone == PredictAlone(calls[t].data, scaler0, model, n_clusters)
                IN /\ (calls[t].outcome = "returned") = (alone.exc = None)
                   /\ calls[t].result = alone.rows

-----------------------------------------------------------------------------
(* Exact rationals [num, den], den > 0, compared by cross-multiplication *)

Rat(n, d) == IF d < 0 THEN [num |-> -n, den |-> -d] ELSE [num |-> n, den |-> d]
RatLess(a, b) == a.num * b.den < b.num * a.den
RatSub(a, b) == Rat(a.num * b.den - b.num * a.den, a.den * b.den)
RatMul(a, b) == Rat(a.num * b.num, a.den * b.den)
RatDiv(a, b) == Rat(a.num * b.den, a.den * b.num)

-----------------------------------------------------------------------------
(* RecommendationEngine: pure functions *)

POINTS_MULTIPLIER == "points_multiplier"
POINTS_BONUS == "points_bonus"
CROSS_BANNER == "cross_banner"
CATEGORY_DISCOUNT == "category_discount"
THRESHOLD_BONUS == "threshold_bonus"

\* An Offer.  value is in twentieths (2.0 is 40, 0.15 is 3); valid_days is
\* end_date - start_date; an Optional list is <<>> for None, <<list>> otherwise.
Offer(offer_type, value, conditions, valid_days, target_banners, target_categories) ==
    [offer_type |-> offer_type, value |-> value, conditions |-> conditions,
     valid_days |-> valid_days, target_banners |-> target_banners,
     target_categories |-> target_categories]

RecRequiredColumns ==
    {"customer_id", "transaction_timestamp", "total_amount", "banner",
     "points_earned", "items", "segment"}

\* one row of customer_metrics; now is the clock datetime.now() reads
CustomerMetrics(rows, c, now) ==
    LET mine == RowsOf(rows, c)
        cnt == Cardinality(mine)
        spend == SumOver([i \in mine |-> rows[i].total_amount], mine)
        points == SumOver([i \in mine |-> rows[i].points_earned], mine)
    IN [customer_id |-> c,
        transaction_count |-> cnt,
        days_since_last_visit |->
            now - Max({rows[i].transaction_timestamp : i \in mine}),
        total_spend |-> spend,
        average_transaction |-> Rat(spend, cnt),
        total_points |-> points,
        average_points |-> Rat(points, cnt),
        unique_banners |-> Cardinality({rows[i].banner : i \in mine}),
        average_basket_size |->
            Rat(SumOver([i \in mine |-> Len(rows[i].items)], mine), cnt)]

\* preprocess_data: [exc, rows]; groupby orders the rows by customer_id and
\* reset_index numbers them from 0 (here from 1)
RecPreprocess(data, now) ==
    IF RecRequiredColumns \ data.cols # {}
    THEN [exc |-> "FeatureError", rows |-> <<>>]
    ELSE LET ids == SortAsc(CustomerIds(data.rows))
         IN [exc |-> None,
             rows |-> [i \in 1..Len(ids) |-> CustomerMetrics(data.rows, ids[i], now)]]

\* MinMaxScaler().fit_transform on one column: (x - min) / (max - min), and
\* x - min (that is 0) where the column is constant
MinMaxFitTransform(col) ==
    LET n == Len(col)
        lo == col[CHOOSE i \in 1..n : \A j \in 1..n : ~RatLess(col[j], col[i])]
        hi == col[CHOOSE i \in 1..n : \A j \in 1..n : ~RatLess(col[i], col[j])]
        range == RatSub(hi, lo)
    IN [i \in 1..n |->
            IF range.num = 0 THEN Rat(0, 1)
            ELSE RatDiv(RatSub(col[i], lo), range)]

\* engineer_features: one feature row per row of data, in the same order
RecEngineerFeatures(data) ==
    LET n == Len(data)
        total_spend == MinMaxFitTransform([i \in 1..n |-> Rat(data[i].total_spend, 1)])
        points_balance == MinMaxFitTransform([i \in 1..n |-> Rat(data[i].total_points, 1)])
        cross_banner_shopping ==
            MinMaxFitTransform([i \in 1..n |-> Rat(data[i].unique_banners, 1)])
        basket_size == MinMaxFitTransform([i \in 1..n |-> data[i].average_basket_size])
        days_since_last_visit ==
            MinMaxFitTransform([i \in 1..n |-> Rat(data[i].days_since_last_visit, 1)])
    IN [i \in 1..n |->
            [total_spend |-> total_spend[i],
             visit_frequency |->
                Rat(data[i].transaction_count, data[i].days_since_last_visit + 1),
             points_balance |-> points_balance[i],
             points_redemption_rate |->
                RatDiv(data[i].average_points,
                       RatSub(data[i].average_transaction, Rat(-1, 1))),
             cross_banner_shopping |-> cross_banner_shopping[i],
             basket_size |-> basket_size[i],
             days_since_last_visit |-> days_since_last_visit[i],
             category_diversity |-> RatMul(cross_banner_shopping[i], basket_size[i])]]

RecSegmentColumns == {"customer_id", "segment", "segment_description"}

\* pd.merge(left, right, on='customer_id'): an inner join in the order of the
\* left rows, numbered anew from 0 (here from 1)
RECURSIVE MergeRows(_, _)
MergeRows(left, right) ==
    IF left = <<>> THEN <<>>
    ELSE LET l == Head(left)
             match == SelectSeq(right, LAMBDA r : r.customer_id = l.customer_id)
         IN [j \in 1..Len(match) |->
                l @@ [segment |-> match[j].segment,
                      segment_description |-> match[j].segment_description]]
            \o MergeRows(Tail(left), right)

\* str.lower() on the banner names
Lower(b) ==
    CASE b = "Sobeys" -> "sobeys"
      [] b = "Safeway" -> "safeway"
      [] b = "IGA" -> "iga"
      [] b = "Foodland" -> "foodland"
      [] b = "FreshCo" -> "freshco"
      [] OTHER -> b

\* _get_recommended_banners: [exc, banners].  customer['banner'] of a row that
\* has no 'banner' entry is a KeyError; no banner name is part of another, so
\* the substring test is an equality
GetRecommendedBanners(customer) ==
    LET all_banners == <<"Sobeys", "Safeway", "IGA", "Foodland", "FreshCo">>
    IN IF "banner" \notin DOMAIN customer
       THEN [exc |-> "KeyError", banners |-> <<>>]
       ELSE [exc |-> None,
             banners |-> SelectSeq(all_banners,
                            LAMBDA b : Lower(b) # Lower(customer.banner))]

GetRecommendedCategories(customer) ==
    <<"Produce", "Dairy", "Meat", "Bakery", "Pantry">>

\* the rules of _generate_customer_offers in their order: [exc, offers].  The
\* cross-banner rule calls _get_recommended_banners, whose exception ends the
\* function.
CandidateOffers(customer, features) ==
    LET banners == GetRecommendedBanners(customer)
        cross == RatLess(features.cross_banner_shopping, Rat(3, 10))
        offers ==
            (IF RatLess(Rat(7, 10), features.points_redemption_rate)
             THEN <<Offer(POINTS_MULTIPLIER, 40, [min_spend |-> 50], 30, <<>>, <<>>)>>
             ELSE <<>>)
            \o
            (IF cross
             THEN <<Offer(CROSS_BANNER, 10000, [min_spend |-> 75], 30,
                          <<banners.banners>>, <<>>)>>
             ELSE <<>>)
            \o
            (IF RatLess(features.category_diversity, Rat(1, 2))
             THEN <<Offer(CATEGORY_DISCOUNT, 3, [min_spend |-> 25], 14, <<>>,
                          <<GetRecommendedCategories(customer)>>)>>
             ELSE <<>>)
            \o
            (IF RatLess(Rat(7, 10), features.total_spend)
             THEN <<Offer(THRESHOLD_BONUS, 20000, [spend_threshold |-> 150], 30,
                          <<>>, <<>>)>>
             ELSE <<>>)
            \o
            (IF RatLess(Rat(4, 5), features.days_since_last_visit)
             THEN <<Offer(POINTS_BONUS, 5000, [min_spend |-> 25], 7, <<>>, <<>>)>>
             ELSE <<>>)
    IN IF cross /\ banners.exc # None
       THEN [exc |-> banners.exc, offers |-> <<>>]
       ELSE [exc |-> None, offers |-> offers]

\* a lookup that matches the first part of a compound description
SegmentMultiplierByFirstPart(segment_description) ==
    CASE Head(segment_description) = "High Spender" -> 24
      [] Head(segment_description) = "Frequent Shopper" -> 22
      [] Head(segment_description) = "Points Saver" -> 26
      [] Head(segment_description) = "Multi-Banner" -> 23
      [] OTHER -> 20

\* segment_multipliers.get(segment_description, 1.0), in twentieths; the text
\* " & ".join builds is the sequence of its parts, so only a one-part
\* description can be a key
SegmentMultiplier(segment_description) ==
    CASE segment_description = <<"High Spender">> -> 24
      [] segment_description = <<"Frequent Shopper">> -> 22
      [] segment_description = <<"Points Saver">> -> 26
      [] segment_description = <<"Multi-Banner">> -> 23
      [] OTHER -> 20

\* _calculate_offer_value, a rational in units of 1/400 (value and multiplier
\* are both in twentieths)
CalculateOfferValue(offer, customer) ==
    LET base_value ==
            IF offer.offer_type = POINTS_MULTIPLIER
            THEN RatMul(Rat(offer.value, 1), customer.average_points)
            ELSE IF offer.offer_type = THRESHOLD_BONUS
            THEN RatMul(Rat(offer.value, 1),
                        RatDiv(customer.average_transaction,
                               Rat(offer.conditions.spend_threshold, 1)))
            ELSE Rat(offer.value, 1)
        multiplier == SegmentMultiplier(customer.segment_description)
    IN RatMul(base_value, Rat(multiplier, 1))

\* a descending sort that is not stable: offers of equal key come out in the
\* reverse of their order in offers
RECURSIVE SortedTiesReversed(_, _)
SortedTiesReversed(offers, customer) ==
    IF offers = <<>> THEN <<>>
    ELSE LET n == Len(offers)
             last == offers[n]
             front == SortedTiesReversed(SubSeq(offers, 1, n - 1), customer)
             keep == Cardinality({i \in 1..Len(front) :
                        RatLess(CalculateOfferValue(last, customer),
                                CalculateOfferValue(front[i], customer))})
         IN SubSeq(front, 1, keep) \o <<last>> \o SubSeq(front, keep + 1, Len(front))

\* sorted(offers, key=..., reverse=True): by descending key, offers of equal
\* key in their order in offers
RECURSIVE SortedOffers(_, _)
SortedOffers(offers, customer) ==
    IF offers = <<>> THEN <<>>
    ELSE LET n == Len(offers)
             last == offers[n]
             front == SortedOffers(SubSeq(offers, 1, n - 1), customer)
             keep == Cardinality({i \in 1..Len(front) :
                        ~RatLess(CalculateOfferValue(front[i], customer),
                                 CalculateOfferValue(last, customer))})
         IN SubSeq(front, 1, keep) \o <<last>> \o SubSeq(front, keep + 1, Len(front))

\* s[:n]
Slice(s, n) ==
    IF n >= 0 THEN SubSeq(s, 1, Min({n, Len(s)}))
    ELSE SubSeq(s, 1, Max({0, Len(s) + n}))

\* _generate_customer_offers without its [:n_offers]
AllCustomerOffers(customer, features, n_offers) ==
    LET c == CandidateOffers(customer, features)
    IN [exc |-> c.exc, candidates |-> c.offers,
        offers |-> IF c.exc # None THEN <<>> ELSE SortedOffers(c.offers, customer)]

\* _generate_customer_offers: [exc, candidates, offers], candidates being the
\* local list offers before it is sorted
GenerateCustomerOffers(customer, features, n_offers) ==
    LET c == CandidateOffers(customer, features)
    IN [exc |-> c.exc, candidates |-> c.offers,
        offers |-> IF c.exc # None THEN <<>>
                   ELSE Slice(SortedOffers(c.offers, customer), n_offers)]

\* dict[k] = v
Put(d, k, v) == [x \in DOMAIN d \cup {k} |-> IF x = k THEN v ELSE d[x]]

\* the loop of generate_offers from row i of customer_profiles on: [exc,
\* offers, calls].  Row i of the merged frame has index label i - 1, and
\* features.loc[customer.name] is the feature row with that label: a KeyError
\* if there is none.  calls lists the calls of _generate_customer_offers.
RECURSIVE OffersLoop(_, _, _, _, _)
OffersLoop(customer_profiles, features, n, i, acc) ==
    IF i > Len(customer_profiles) THEN acc
    ELSE IF i > Len(features) THEN [acc EXCEPT !.exc = "KeyError"]
    ELSE LET customer == customer_profiles[i]
             r == GenerateCustomerOffers(customer, features[i], n)
             call == [customer_id |-> customer.customer_id, customer |-> customer,
                      features |-> features[i], exc |-> r.exc,
                      candidates |-> r.candidates, offers |-> r.offers]
         IN IF r.exc # None
            THEN [acc EXCEPT !.exc = r.exc, !.calls = Append(acc.calls, call)]
            ELSE OffersLoop(customer_profiles, features, n, i + 1,
                    [exc |-> None,
                     offers |-> Put(acc.offers, customer.customer_id, r.offers),
                     calls |-> Append(acc.calls, call)])

\* generate_offers: [exc, cause, offers, calls]; every exception leaves as a
\* ModelError, cause being the class of the one caught
GenerateOffersResult(customer_data, segment_data, n, now) ==
    LET processed_data == RecPreprocess(customer_data, now)
        features == RecEngineerFeatures(processed_data.rows)
        customer_profiles == MergeRows(processed_data.rows, segment_data.rows)
        loop == OffersLoop(customer_profiles, features, n, 1,
                           [exc |-> None, offers |-> <<>>, calls |-> <<>>])
        Raise(cause, made) ==
            [exc |-> "ModelError", cause |-> cause, offers |-> <<>>, calls |-> made]
    IN IF processed_data.exc # None THEN Raise(processed_data.exc, <<>>)
       ELSE IF RecSegmentColumns \ segment_data.cols # {} THEN Raise("KeyError", <<>>)
       ELSE IF loop.exc # None THEN Raise(loop.exc, loop.calls)
       ELSE [exc |-> None, cause |-> None, offers |-> loop.offers, calls |-> loop.calls]

-----------------------------------------------------------------------------
(* RecommendationEngine: inputs *)

MaxCustomers == 2
MaxNOffers == 3

\* the clock is not before the last transaction
Nows == {90, 100}

\* the transactions of customer c, by the kind of shopper.  The amounts keep
\* every scaled feature apart from 0.3, 0.7 and 0.8, where binary floating
\* point would round either way; the points_redemption_rate of steady and of
\* explorer is 7 / 10.
ShopperKinds == {"loyal", "steady", "explorer", "bulk"}

KindRows(c, kind) ==
    CASE kind = "loyal" ->
            <<Tx(c, 60, 40, "sobeys", 35, 2), Tx(c, 90, 60, "safeway", 45, 4)>>
      [] kind = "steady" -> <<Tx(c, 30, 9, "sobeys", 7, 2)>>
      [] kind = "explorer" ->
            <<Tx(c, 0, 18, "iga", 15, 1), Tx(c, 10, 30, "foodland", 20, 1)>>
      \* average transaction 37.5: a threshold bonus scores 1000 * 37.5 / 150,
      \* as much as a points bonus
      [] kind = "bulk" ->
            <<Tx(c, 0, 35, "iga", 3, 3), Tx(c, 4, 40, "safeway", 3, 3)>>

RECURSIVE CustomerRows(_, _)
CustomerRows(kinds, c) ==
    IF c > Len(kinds) THEN <<>>
    ELSE KindRows(c, kinds[c]) \o CustomerRows(kinds, c + 1)

CustomerFrames ==
    LET batches == {CustomerRows(k, 1) :
                        k \in UNION {[1..n -> ShopperKinds] : n \in 1..MaxCustomers}}
    IN {Frame(TxColumns, rows) : rows \in batches}
       \cup {Frame(RecRequiredColumns,
                   [i \in 1..Len(rows) |-> rows[i] @@ [segment |-> 0]]) :
                rows \in batches}

\* segment assignments: at most one row per customer, in customer order, as
\* predict builds them, and one frame without the segment_description column
SegmentChoices ==
    {[segment |-> 0, segment_description |-> <<"High Spender">>],
     [segment |-> 1, segment_description |-> <<"Average">>]}

SegmentRows(assigned) ==
    LET ids == SortAsc(DOMAIN assigned)
    IN [i \in 1..Len(ids) |-> [customer_id |-> ids[i]] @@ assigned[ids[i]]]

SegmentFrames ==
    LET assignments == UNION {[S -> SegmentChoices] : S \in SUBSET (1..MaxCustomers)}
    IN {Frame(RecSegmentColumns, SegmentRows(a)) : a \in assignments}
       \cup {Frame({"customer_id", "segment"},
                   [i \in 1..MaxCustomers |-> [customer_id |-> i, segment |-> 0]])}

-----------------------------------------------------------------------------
(* RecommendationEngine: the state machine *)

NoFrame == Frame({}, <<>>)
NoDirect == [fn |-> "none"]

\* the offers the five rules build
OfferForms ==
    {Offer(POINTS_MULTIPLIER, 40, [min_spend |-> 50], 30, <<>>, <<>>),
     Offer(CROSS_BANNER, 10000, [min_spend |-> 75], 30, <<<<"IGA", "Foodland">>>>, <<>>),
     Offer(CATEGORY_DISCOUNT, 3, [min_spend |-> 25], 14, <<>>,
           <<GetRecommendedCategories(<<>>)>>),
     Offer(THRESHOLD_BONUS, 20000, [spend_threshold |-> 150], 30, <<>>, <<>>),
     Offer(POINTS_BONUS, 5000, [min_spend |-> 25], 7, <<>>, <<>>)}

\* segment descriptions: the four keys of segment_multipliers, another
\* one-part text and a compound one
Descriptions ==
    {<<"High Spender">>, <<"Frequent Shopper">>, <<"Points Saver">>,
     <<"Multi-Banner">>, <<"Average">>, <<"High Spender", "Frequent Shopper">>}

\* customer rows as _calculate_offer_value reads them
ScoredCustomers ==
    {[average_points |-> Rat(p, 1), average_transaction |-> Rat(t, 1),
      segment_description |-> d] :
        p \in {40, 100}, t \in {75, 150}, d \in Descriptions}

\* customer rows as _get_recommended_banners reads them
BannerCustomers == {[banner |-> b] : b \in {"Sobeys", "sobeys", "IGA", "Walmart"}}

OInit ==
    /\ o_pc = "idle"
    /\ o_customer_data = NoFrame
    /\ o_segment_data = NoFrame
    /\ o_n_offers = 0
    /\ o_now = 0
    /\ o_outcome = "none"
    /\ o_exc = None
    /\ o_cause = None
    /\ o_offers = <<>>
    /\ o_calls = <<>>
    /\ o_direct = NoDirect

\* a call of generate_offers, from its arguments to its return or raise
GenerateOffers(customer_data, segment_data, n, now) ==
    /\ o_pc = "idle"
    /\ o_direct = NoDirect
    /\ LET r == GenerateOffersResult(customer_data, segment_data, n, now)
       IN /\ o_outcome' = IF r.exc = None THEN "returned" ELSE "raised"
          /\ o_exc' = r.exc
          /\ o_cause' = r.cause
          /\ o_offers' = r.offers
          /\ o_calls' = r.calls
    /\ o_customer_data' = customer_data
    /\ o_segment_data' = segment_data
    /\ o_n_offers' = n
    /\ o_now' = now
    /\ o_pc' = "done"
    /\ UNCHANGED o_direct
    /\ UNCHANGED <<tvars, svars, avars>>

\* the caller takes the outcome (no later call reads what this one left in
\* self.scaler: each fit_transform fits it anew)
OffersTaken ==
    /\ o_pc = "done"
    /\ o_pc' = "idle"
    /\ o_customer_data' = NoFrame
    /\ o_segment_data' = NoFrame
    /\ o_n_offers' = 0
    /\ o_now' = 0
    /\ o_outcome' = "none"
    /\ o_exc' = None
    /\ o_cause' = None
    /\ o_offers' = <<>>
    /\ o_calls' = <<>>
    /\ UNCHANGED o_direct
    /\ UNCHANGED <<tvars, svars, avars>>

ocall == <<o_pc, o_customer_data, o_segment_data, o_n_offers, o_now, o_outcome,
           o_exc, o_cause, o_offers, o_calls>>

\* engine._calculate_offer_value(offer, customer), called by itself
CalculateOfferValueCall(offer, customer) ==
    /\ o_pc = "idle"
    /\ o_direct = NoDirect
    /\ o_direct' = [fn |-> "_calculate_offer_value", offer |-> offer,
                    customer |-> customer,
                    value |-> CalculateOfferValue(offer, customer)]
    /\ UNCHANGED ocall
    /\ UNCHANGED <<tvars, svars, avars>>

\* engine._get_recommended_banners(customer), called by itself
GetRecommendedBannersCall(customer) ==
    /\ o_pc = "idle"
    /\ o_direct = NoDirect
    /\ LET r == GetRecommendedBanners(customer)
       IN o_direct' = [fn |-> "_get_recommended_banners", customer |-> customer,
                       exc |-> r.exc, banners |-> r.banners]
    /\ UNCHANGED ocall
    /\ UNCHANGED <<tvars, svars, avars>>

\* engine.preprocess_data(data), called by itself when the clock reads now
RecPreprocessDataCall(data, now) ==
    /\ o_pc = "idle"
    /\ o_direct = NoDirect
    /\ LET r == RecPreprocess(data, now)
       IN o_direct' = [fn |-> "preprocess_data", data |-> data, now |-> now,
                       exc |-> r.exc, rows |-> r.rows]
    /\ UNCHANGED ocall
    /\ UNCHANGED <<tvars, svars, avars>>

\* engine.engineer_features(engine.preprocess_data(data)), called by itself
\* when the clock reads now
RecEngineerFeaturesCall(data, now) ==
    /\ o_pc = "idle"
    /\ o_direct = NoDirect
    /\ LET r == RecPreprocess(data, now)
       IN o_direct' = [fn |-> "engineer_features", data |-> data, now |-> now,
                       exc |-> r.exc,
                       rows |-> IF r.exc = None THEN RecEngineerFeatures(r.rows)
                                ELSE <<>>]
    /\ UNCHANGED ocall
    /\ UNCHANGED <<tvars, svars, avars>>

\* one batch of the engine under every choice of the columns it comes with
RecColumnFrames ==
    {Frame(cols, [i \in 1..2 |-> SegFrame("D1").rows[i] @@ [segment |-> 0]]) :
        cols \in SUBSET RecRequiredColumns}

\* the caller takes the helper's result
DirectTaken ==
    /\ o_direct # NoDirect
    /\ o_direct' = NoDirect
    /\ UNCHANGED ocall
    /\ UNCHANGED <<tvars, svars, avars>>

ONext ==
    \/ \E customer_data \in CustomerFrames, segment_data \in SegmentFrames,
          n \in 1..MaxNOffers, now \in Nows :
            GenerateOffers(customer_data, segment_data, n, now)
    \/ OffersTaken
    \/ \E offer \in OfferForms, customer \in ScoredCustomers :
            CalculateOfferValueCall(offer, customer)
    \/ \E customer \in BannerCustomers : GetRecommendedBannersCall(customer)
    \/ \E data \in CustomerFrames, now \in Nows : RecPreprocessDataCall(data, now)
    \/ \E data \in CustomerFrames, now \in Nows : RecEngineerFeaturesCall(data, now)
    \/ DirectTaken

-----------------------------------------------------------------------------
(* RecommendationEngine: properties *)

OffersDone == o_pc = "done"
OfferCustomers == CustomerIds(o_customer_data.rows)
SegmentCustomers == CustomerIds(o_segment_data.rows)

\* the feature row engineer_features computed from the transactions of c
OwnFeatures(c) ==
    LET processed_data == RecPreprocess(o_customer_data, o_now).rows
        i == CHOOSE j \in 1..Len(processed_data) : processed_data[j].customer_id = c
    IN RecEngineerFeatures(processed_data)[i]

\* C7: generate_offers raises ModelError whenever a customer of the
\* transaction input has no row in segment_data; it never returns a result
\* that leaves such a customer out.
C7_MissingSegmentRaises ==
    (OffersDone /\ OfferCustomers \ SegmentCustomers # {})
    => o_outcome = "raised" /\ IsInstance(o_exc, "ModelError")

\* what the code does there: a call that returns has left out every customer
\* without a segment row
MissingSegmentLeftOut ==
    (OffersDone /\ o_outcome = "returned")
    => DOMAIN o_offers = OfferCustomers \cap SegmentCustomers

\* the arguments C8 is about: the Transaction columns, and one segment row
\* per customer of the batch with the columns predict returns
TransactionInput ==
    /\ OffersDone
    /\ o_customer_data.cols = TxColumns
    /\ o_segment_data.cols = RecSegmentColumns
    /\ SegmentCustomers = OfferCustomers
    /\ Len(o_segment_data.rows) = Cardinality(OfferCustomers)

\* C8: on a batch with the Transaction columns and the segment assignments
\* predict returns for it, generate_offers returns, without raising, a mapping
\* with exactly one entry per distinct customer_id.
C8_TransactionInputReturnsAllCustomers ==
    TransactionInput
    => o_outcome = "returned" /\ DOMAIN o_offers = OfferCustomers

\* what the code does there: the 'segment' column is missing and the call
\* raises
TransactionInputRaises ==
    TransactionInput
    => o_outcome = "raised" /\ o_exc = "ModelError" /\ o_cause = "FeatureError"

\* and with the 'segment' column present: the customer with the fewest banners
\* scales to 0, the cross-banner rule fires and its banner lookup raises
FullCoverageRaises ==
    (OffersDone /\ OfferCustomers \subseteq SegmentCustomers)
    => o_outcome = "raised"

\* C9: every customer of a returned result has at most n_offers offers.
C9_AtMostNOffers ==
    (OffersDone /\ o_outcome = "returned")
    => \A c \in DOMAIN o_offers : Len(o_offers[c]) <= o_n_offers

\* a returned customer with more candidates than n_offers, cut to n_offers
C9_Witness ==
    /\ OffersDone
    /\ o_outcome = "returned"
    /\ \E i \in 1..Len(o_calls) :
          /\ Len(o_calls[i].candidates) > o_n_offers
          /\ Len(o_offers[o_calls[i].customer_id]) = o_n_offers

\* the offer types of the rules whose strict condition holds on f, in the
\* order of evaluation
FiringRuleTypes(f) ==
    (IF 10 * f.points_redemption_rate.num > 7 * f.points_redemption_rate.den
     THEN <<"points_multiplier">> ELSE <<>>)
    \o (IF 10 * f.cross_banner_shopping.num < 3 * f.cross_banner_shopping.den
        THEN <<"cross_banner">> ELSE <<>>)
    \o (IF 2 * f.category_diversity.num < f.category_diversity.den
        THEN <<"category_discount">> ELSE <<>>)
    \o (IF 10 * f.total_spend.num > 7 * f.total_spend.den
        THEN <<"threshold_bonus">> ELSE <<>>)
    \o (IF 5 * f.days_since_last_visit.num > 4 * f.days_since_last_visit.den
        THEN <<"points_bonus">> ELSE <<>>)

OfferTypes(offers) == [i \in 1..Len(offers) |-> offers[i].offer_type]

\* C10: for each customer the candidate offers are exactly those of the five
\* rules whose strict condition holds on the customer's engineered features,
\* each once and in the order of evaluation; a value equal to its threshold
\* fires no rule.
C10_CandidatesAreFiringRules ==
    OffersDone =>
        \A i \in 1..Len(o_calls) :
            /\ o_calls[i].exc = None
            /\ OfferTypes(o_calls[i].candidates)
                = FiringRuleTypes(OwnFeatures(o_calls[i].customer_id))

\* what the code does: the rules are evaluated on the feature row handed in,
\* and a firing cross-banner rule ends the call with a KeyError
CandidatesFromFeaturesPassed ==
    OffersDone =>
        \A i \in 1..Len(o_calls) :
            IF "cross_banner" \in Range(FiringRuleTypes(o_calls[i].features))
            THEN o_calls[i].exc = "KeyError" /\ o_outcome = "raised"
            ELSE /\ o_calls[i].exc = None
                 /\ OfferTypes(o_calls[i].candidates)
                        = FiringRuleTypes(o_calls[i].features)

\* the place of a rule in the order of evaluation
RuleOrder(offer_type) ==
    CASE offer_type = "points_multiplier" -> 1
      [] offer_type = "cross_banner" -> 2
      [] offer_type = "category_discount" -> 3
      [] offer_type = "threshold_bonus" -> 4
      [] offer_type = "points_bonus" -> 5

SameScore(a, b, customer) ==
    /\ ~RatLess(CalculateOfferValue(a, customer), CalculateOfferValue(b, customer))
    /\ ~RatLess(CalculateOfferValue(b, customer), CalculateOfferValue(a, customer))

\* a comes before b in the ranking: a higher score, or the same score and an
\* earlier rule
RanksBefore(a, b, customer) ==
    \/ RatLess(CalculateOfferValue(b, customer), CalculateOfferValue(a, customer))
    \/ SameScore(a, b, customer) /\ RuleOrder(a.offer_type) < RuleOrder(b.offer_type)

\* C11: the offers returned for a customer are in non-increasing order of
\* score, offers of equal score in rule-evaluation order, and they are the
\* first n_offers candidates of that order.
C11_RankedByScoreStable ==
    OffersDone =>
        \A i \in 1..Len(o_calls) :
            o_calls[i].exc = None =>
                LET cand == o_calls[i].candidates
                    got == o_calls[i].offers
                    customer == o_calls[i].customer
                    left == {c \in 1..Len(cand) :
                                cand[c].offer_type \notin Range(OfferTypes(got))}
                IN /\ Len(got) = Min({o_n_offers, Len(cand)})
                   /\ Range(OfferTypes(got)) \subseteq Range(OfferTypes(cand))
                   /\ \A a, b \in 1..Len(got) :
                         a < b => RanksBefore(got[a], got[b], customer)
                   /\ \A c \in left : \A g \in 1..Len(got) :
                         RanksBefore(got[g], cand[c], customer)

\* a returned list that holds two offers of equal score
C11_Witness ==
    /\ OffersDone
    /\ o_outcome = "returned"
    /\ \E i \in 1..Len(o_calls) :
          \E a, b \in 1..Len(o_calls[i].offers) :
              /\ a < b
              /\ SameScore(o_calls[i].offers[a], o_calls[i].offers[b],
                           o_calls[i].customer)

ScoreCall == o_direct.fn = "_calculate_offer_value"

RECURSIVE Gcd(_, _)
Gcd(a, b) == IF b = 0 THEN a ELSE Gcd(b, a % b)

\* a rational in lowest terms
Lowest(r) ==
    LET g == Gcd(IF r.num < 0 THEN -r.num ELSE r.num, r.den)
    IN [num |-> r.num \div g, den |-> r.den \div g]

\* the multiplier the scoring rule names for a description, in twentieths
StatedMultiplier(segment_description) ==
    IF segment_description = <<"High Spender">> THEN 24
    ELSE IF segment_description = <<"Frequent Shopper">> THEN 22
    ELSE IF segment_description = <<"Points Saver">> THEN 26
    ELSE IF segment_description = <<"Multi-Banner">> THEN 23
    ELSE 20

\* C12: the score of an offer is adjusted_value x segment_multiplier:
\* adjusted_value is value x average points for points_multiplier, value x
\* (average transaction / spend_threshold) for threshold_bonus, the raw value
\* otherwise; the multiplier is 1.2 / 1.1 / 1.3 / 1.15 for exactly 'High
\* Spender' / 'Frequent Shopper' / 'Points Saver' / 'Multi-Banner' and 1.0
\* for any other text, compound descriptions included.
C12_ScoreIsAdjustedValueTimesMultiplier ==
    ScoreCall =>
        LET offer == o_direct.offer
            customer == o_direct.customer
            m == StatedMultiplier(customer.segment_description)
            \* the stated score as num / den, in units of 1 / 400
            num == IF offer.offer_type = "points_multiplier"
                   THEN offer.value * customer.average_points.num * m
                   ELSE IF offer.offer_type = "threshold_bonus"
                   THEN offer.value * customer.average_transaction.num * m
                   ELSE offer.value * m
            den == IF offer.offer_type = "points_multiplier"
                   THEN customer.average_points.den
                   ELSE IF offer.offer_type = "threshold_bonus"
                   THEN customer.average_transaction.den * offer.conditions.spend_threshold
                   ELSE 1
        IN Lowest(o_direct.value) = Lowest(Rat(num, den))

\* a threshold bonus scored for a customer with a compound description
C12_Witness ==
    /\ ScoreCall
    /\ o_direct.offer.offer_type = "threshold_bonus"
    /\ Len(o_direct.customer.segment_description) = 2
    /\ Lowest(o_direct.value) =
            Lowest(Rat(o_direct.offer.value * 20
                           * o_direct.customer.average_transaction.num,
                       150 * o_direct.customer.average_transaction.den))

\* the banners of the candidate list that customer c has not visited in the
\* batch
Unvisited(c) ==
    LET visited == {o_customer_data.rows[i].banner : i \in RowsOf(o_customer_data.rows, c)}
    IN SelectSeq(<<"Sobeys", "Safeway", "IGA", "Foodland", "FreshCo">>,
                 LAMBDA b : Lower(b) \notin visited)

\* C13: where the cross-banner rule fires for a customer, building the offer
\* does not fail, and the offer's target_banners are the candidate banners
\* the customer has not visited in the batch.
C13_CrossBannerTargetsUnvisited ==
    OffersDone =>
        \A i \in 1..Len(o_calls) :
            RatLess(o_calls[i].features.cross_banner_shopping, Rat(3, 10))
            => /\ o_calls[i].exc = None
               /\ \E j \in 1..Len(o_calls[i].candidates) :
                     /\ o_calls[i].candidates[j].offer_type = "cross_banner"
                     /\ o_calls[i].candidates[j].target_banners
                            = <<Unvisited(o_calls[i].customer_id)>>

\* what the code does: no call of generate_offers ever builds a cross-banner
\* offer
NoCrossBannerOffer ==
    \A i \in 1..Len(o_calls) :
        \A j \in 1..Len(o_calls[i].candidates) :
            o_calls[i].candidates[j].offer_type # "cross_banner"

RecPreprocessReturned == o_direct.fn = "preprocess_data" /\ o_direct.exc = None

\* the latest timestamp of the batch of the call, and of customer c in it
RecBatchLatest ==
    Max({o_direct.data.rows[j].transaction_timestamp : j \in 1..Len(o_direct.data.rows)})
RecLatestOf(c) ==
    Max({o_direct.data.rows[j].transaction_timestamp :
            j \in RowsOf(o_direct.data.rows, c)})

\* C20: the engine's preprocess_data measures days_since_last_visit from the
\* latest timestamp of the batch, whatever the time of the call: the profiles
\* of a batch do not depend on the clock, and the customer with the latest
\* transaction of the batch has days_since_last_visit = 0.
C20_RecencyRelativeToBatch ==
    RecPreprocessReturned
    => \A i \in 1..Len(o_direct.rows) :
          o_direct.rows[i].days_since_last_visit
             = RecBatchLatest - RecLatestOf(o_direct.rows[i].customer_id)

\* what the code gives: the days from the customer's latest transaction to the
\* clock at the time of the call
RecencyRelativeToClock ==
    RecPreprocessReturned
    => \A i \in 1..Len(o_direct.rows) :
          o_direct.rows[i].days_since_last_visit
             = o_direct.now - RecLatestOf(o_direct.rows[i].customer_id)

-----------------------------------------------------------------------------
(* CustomerSegmentation: clusters, descriptions, persistence, profiles *)

\* C14: once train has returned on an instance built with n_clusters = k, the
\* model holds exactly k centroids, and every segment id a predict returns is
\* one of 0..k-1.
C14_TrainGivesKClusters ==
    train_call.outcome = "returned"
    => /\ model.state = "fitted" /\ Len(model.centers) = n_clusters
       /\ \A t \in Threads :
             (calls[t].pc = "done" /\ calls[t].outcome = "returned")
             => \A i \in 1..Len(calls[t].result) :
                   calls[t].result[i].segment \in 0..(n_clusters - 1)

\* a predict after a train with three clusters returns all three segment ids
C14_Witness ==
    /\ train_call.outcome = "returned"
    /\ n_clusters = 3
    /\ \E t \in Threads :
          /\ calls[t].pc = "done" /\ calls[t].outcome = "returned"
          /\ {calls[t].result[i].segment : i \in 1..Len(calls[t].result)} = 0..2

\* the descriptors in the order the description lists them
DescriptorOrder ==
    <<"High Spender", "Low Spender", "Frequent Shopper", "Infrequent Shopper",
      "Multi-Banner", "Points Saver", "Points Redeemer">>

Above(x) == 2 * x > FixedOne
Below(x) == 2 * x < -FixedOne

\* whether descriptor d is chosen for center c
Chosen(d, c) ==
    CASE d = "High Spender"       -> Above(c.total_spend)
      [] d = "Low Spender"        -> ~Above(c.total_spend) /\ Below(c.total_spend)
      [] d = "Frequent Shopper"   -> Above(c.visit_frequency)
      [] d = "Infrequent Shopper" -> ~Above(c.visit_frequency) /\ Below(c.visit_frequency)
      [] d = "Multi-Banner"       -> Above(c.cross_banner_shopping)
      [] d = "Points Saver"       -> Above(c.points_balance)
      [] d = "Points Redeemer"    -> ~Above(c.points_balance)
                                     /\ Above(c.points_redemption_rate)

StatedDescription(c) ==
    LET chosen == SelectSeq(DescriptorOrder, LAMBDA d : Chosen(d, c))
    IN IF chosen = <<>> THEN <<"Average">> ELSE chosen

\* C15: the description of every segment is the stated function of its
\* centroid: the chosen descriptors in the stated order, title-cased, or
\* "Average" when none is chosen; thresholds 0.5 and -0.5 are strict.
C15_DescriptionIsFunctionOfCentroid ==
    (s_call.fn = "_get_segment_descriptions" /\ s_call.outcome = "returned")
    => /\ Len(s_call.rows) = n_clusters
       /\ \A j \in 1..n_clusters :
             s_call.rows[j] = StatedDescription(model.centers[j])

\* a centroid on the spend, frequency and banner thresholds themselves and above
\* both points thresholds is described as a points saver, nothing else
C15_Witness ==
    /\ s_call.fn = "_get_segment_descriptions" /\ s_call.outcome = "returned"
    /\ model.centers[1].total_spend = FixedOne \div 2
    /\ model.centers[1].visit_frequency = -(FixedOne \div 2)
    /\ model.centers[1].cross_banner_shopping = FixedOne \div 2
    /\ Above(model.centers[1].points_balance)
    /\ Above(model.centers[1].points_redemption_rate)
    /\ s_call.rows = << <<"Points Saver">>, <<"Average">> >>

\* the same in predict: each row carries the description of the center of its
\* segment
PredictDescribesOwnCenter ==
    \A t \in Threads :
        (calls[t].pc = "done" /\ calls[t].outcome = "returned")
        => \A i \in 1..Len(calls[t].result) :
              calls[t].result[i].segment_description
                 = StatedDescription(model.centers[calls[t].result[i].segment + 1])

\* the instance is a fresh one that loaded the file of a trained model and
\* has not been trained since
LoadedTrained ==
    /\ loads > 0
    /\ saved_file # <<>>
    /\ saved_file[1].model.state = "fitted"
    /\ train_call.outcome = "none"

\* predict on batch d as the instance that saved the file runs it
OriginalPredict(d) ==
    PredictAlone(d, saver.scaler, saved_file[1].model, saver.n_clusters)

\* C16: a fresh instance that loaded the saved model predicts, on any input,
\* what the instance that saved it predicts on that input.
C16_LoadedPredictsAsOriginal ==
    (LoadedTrained /\ calls["A"].pc = "done")
    => /\ calls["A"].exc = OriginalPredict(calls["A"].data).exc
       /\ calls["A"].result = OriginalPredict(calls["A"].data).rows

\* what the code gives: the same output when the fresh instance was built with
\* the n_clusters of the one that saved
LoadedPredictsAsOriginalSameClusters ==
    (LoadedTrained /\ calls["A"].pc = "done" /\ n_clusters = saver.n_clusters)
    => /\ calls["A"].exc = OriginalPredict(calls["A"].data).exc
       /\ calls["A"].result = OriginalPredict(calls["A"].data).rows

\* a predict of such an instance has returned
LoadedSameClustersPredicted ==
    /\ LoadedTrained /\ n_clusters = saver.n_clusters
    /\ calls["A"].pc = "done" /\ calls["A"].outcome = "returned"

\* get_segment_profiles as the instance that saved the file runs it
OriginalProfiles == SegmentProfiles(saver.scaler, saved_file[1].model, saver.n_clusters)

\* C17: the file carries the scaler fitted at training: get_segment_profiles
\* on a fresh instance that loaded it returns the centroids in original units
\* and the descriptions the instance that saved it returns.
C17_LoadedProfilesAsOriginal ==
    (LoadedTrained /\ s_call.fn = "get_segment_profiles" /\ OriginalProfiles.exc = None)
    => /\ s_call.outcome = "returned"
       /\ s_call.rows = OriginalProfiles.rows

\* what the code gives: the file has no scaler, and until the fresh instance
\* fits its own in a predict, get_segment_profiles raises NotFittedError
LoadedProfilesRaiseBeforePredict ==
    (LoadedTrained /\ s_call.fn = "get_segment_profiles" /\ ~scaler.fitted)
    => s_call.outcome = "raised" /\ s_call.exc = "NotFittedError"

PreprocessReturned == s_call.fn = "preprocess_data" /\ s_call.outcome = "returned"

\* the numbers of the transactions of customer c in the batch of the call
InputRowsOf(c) ==
    {j \in 1..Len(s_call.data.rows) : s_call.data.rows[j].customer_id = c}

\* C18: preprocess_data returns one profile row for each distinct customer_id
\* of the batch and no other row, and the row's transaction_count is the
\* number of transactions of that customer in the batch.
C18_OneProfilePerCustomer ==
    /\ (s_call.fn = "preprocess_data" /\ SegRequiredColumns \subseteq s_call.data.cols)
          => s_call.outcome = "returned"
    /\ PreprocessReturned
          => /\ \A c \in CustomerIds(s_call.data.rows) :
                   Cardinality({i \in 1..Len(s_call.rows) :
                                   s_call.rows[i].customer_id = c}) = 1
             /\ \A i \in 1..Len(s_call.rows) :
                   /\ s_call.rows[i].customer_id \in CustomerIds(s_call.data.rows)
                   /\ s_call.rows[i].transaction_count
                         = Cardinality(InputRowsOf(s_call.rows[i].customer_id))

\* a batch of three transactions, two of customer 1 on the same day and one of
\* customer 2, gives two rows with counts 2 and 1
C18_Witness ==
    /\ PreprocessReturned
    /\ Len(s_call.data.rows) = 3
    /\ Cardinality(InputRowsOf(1)) = 2
    /\ \A j \in InputRowsOf(1) : s_call.data.rows[j].transaction_timestamp = 3
    /\ Len(s_call.rows) = 2
    /\ s_call.rows[1].transaction_count = 2
    /\ s_call.rows[2].transaction_count = 1

\* the latest timestamp of the batch of the call, and of customer c in it
BatchLatest ==
    Max({s_call.data.rows[j].transaction_timestamp : j \in 1..Len(s_call.data.rows)})
LatestOf(c) == Max({s_call.data.rows[j].transaction_timestamp : j \in InputRowsOf(c)})

\* C19: in every profile preprocess_data returns, days_since_last_visit is the
\* batch-wide latest timestamp minus the customer's own latest, in whole days:
\* never negative, and 0 for every customer whose latest transaction is the
\* latest of the batch.
C19_DaysSinceLastVisitBatchRelative ==
    PreprocessReturned
    => \A i \in 1..Len(s_call.rows) :
          LET p == s_call.rows[i]
          IN /\ p.days_since_last_visit = BatchLatest - LatestOf(p.customer_id)
             /\ p.days_since_last_visit >= 0
             /\ LatestOf(p.customer_id) = BatchLatest => p.days_since_last_visit = 0

\* customer 1 came on day 0 and again on day 10, the latest of the batch, and
\* customer 2 on day 3 only: days_since_last_visit 0 and 7
C19_Witness ==
    /\ PreprocessReturned
    /\ Len(s_call.data.rows) = 3
    /\ {s_call.data.rows[j].transaction_timestamp : j \in InputRowsOf(1)} = {0, 10}
    /\ {s_call.data.rows[j].transaction_timestamp : j \in InputRowsOf(2)} = {3}
    /\ s_call.rows[1].days_since_last_visit = 0
    /\ s_call.rows[2].days_since_last_visit = 7

-----------------------------------------------------------------------------
(* Missing columns, scaled features, valid records *)

RecFeatureColumns ==
    {"total_spend", "visit_frequency", "points_balance", "points_redemption_rate",
     "cross_banner_shopping", "basket_size", "days_since_last_visit",
     "category_diversity"}

InUnitRange(x) == ~RatLess(x, Rat(0, 1)) /\ ~RatLess(Rat(1, 1), x)

EngineerFeaturesReturned == o_direct.fn = "engineer_features" /\ o_direct.exc = None

\* C22: each of the 8 components of every feature row engineer_features
\* returns lies in [0, 1].
C22_FeaturesInUnitRange ==
    EngineerFeaturesReturned
    => \A i \in 1..Len(o_direct.rows) :
          \A f \in RecFeatureColumns : InUnitRange(o_direct.rows[i][f])

\* what the code gives: the components that go through the scaler, and the
\* product of two of them, lie in [0, 1]
ScaledFeaturesInUnitRange ==
    EngineerFeaturesReturned
    => \A i \in 1..Len(o_direct.rows) :
          \A f \in RecFeatureColumns \ {"visit_frequency", "points_redemption_rate"} :
                InUnitRange(o_direct.rows[i][f])

\* engineer_features was called on a batch whose customers all came last on
\* the same day
SameDayFeaturesCall ==
    /\ s_call.fn = "engineer_features"
    /\ Preprocessed[s_call.data].exc = None
    /\ DateRangeDays(Preprocessed[s_call.data].rows) = 0

\* C23: when every customer's last transaction falls on the same day,
\* engineer_features raises nothing and returns one feature row per customer,
\* every component a finite number.
C23_SameDayFeaturesFinite ==
    SameDayFeaturesCall
    => /\ s_call.outcome = "returned"
       /\ Len(s_call.rows) = Len(Preprocessed[s_call.data].rows)

\* what the code gives: the call raises FeatureError and leaves the scaler
\* unfitted
SameDayFeaturesRaise ==
    SameDayFeaturesCall
    => /\ s_call.outcome = "raised" /\ s_call.exc = "FeatureError"
       /\ ~scaler.fitted

\* the Transaction invariant on a record
TransactionInvariant(record) ==
    /\ record.items # <<>>
    /\ record.total_amount >= 0
    /\ record.points_earned >= 0
    /\ \A i \in 1..Len(record.items) :
          record.items[i].quantity > 0 /\ record.items[i].price >= 0

\* C24: every record transform returns as valid satisfies the Transaction
\* invariant: items non-empty, total_amount >= 0, points_earned >= 0, every
\* item with quantity > 0 and price >= 0.
C24_ValidRecordsSatisfyInvariant ==
    (TransformDone /\ t_outcome = "returned")
    => \A i \in 1..Len(t_valid) : TransactionInvariant(t_valid[i])

\* what the code gives: the parts of the invariant the schema tests
ValidRecordsPassSchema ==
    (TransformDone /\ t_outcome = "returned")
    => \A i \in 1..Len(t_valid) :
          /\ t_valid[i].items # <<>>
          /\ t_valid[i].total_amount >= 0
          /\ \A j \in 1..Len(t_valid[i].items) : ItemKeys \subseteq t_valid[i].items[j].keys

-----------------------------------------------------------------------------
(* API endpoints (api/endpoints.py) *)

ApiIds == {1, 2}

\* what the data layer does for the request: it returns rows, it returns
\* nothing, or a call in the body of the handler raises
DataOutcomes == {"rows", "nothing", "error"}

EventTypes == {"view", "click", "redeem", "generate", "invalid_type"}
ValidEvents == {"view", "click", "redeem"}

LookupEndpoints == {"get_customer_profile", "generate_offers", "get_offer"}

ApiRequests ==
    {[endpoint |-> e, id |-> i, data |-> d, event_type |-> None] :
        e \in LookupEndpoints, i \in ApiIds, d \in DataOutcomes}
    \cup {[endpoint |-> "track_offer_event", id |-> i, data |-> d, event_type |-> t] :
             i \in ApiIds, d \in DataOutcomes, t \in EventTypes}

NoRequest == [endpoint |-> "none", id |-> 0, data |-> None, event_type |-> None]

HTTPException(status_code) == [cls |-> "HTTPException", status_code |-> status_code]
OtherException == [cls |-> "Exception", status_code |-> 0]

\* the body of the try statement of the handler: <<>> when it returns, <<e>>
\* when it raises e
TryBody(req) ==
    IF req.endpoint = "track_offer_event"
    THEN IF req.event_type \notin ValidEvents THEN <<HTTPException(400)>>
         ELSE IF req.data = "error" THEN <<OtherException>>
         ELSE <<>>
    ELSE IF req.data = "error" THEN <<OtherException>>
         ELSE IF req.data = "nothing" THEN <<HTTPException(404)>>
         ELSE <<>>

AInit ==
    /\ a_pc = "idle"
    /\ a_req = NoRequest
    /\ a_exc = <<>>
    /\ a_status = 0

\* a request reaches its handler
ApiRequest(req) ==
    /\ a_pc = "idle"
    /\ a_pc' = "body"
    /\ a_req' = req
    /\ UNCHANGED <<a_exc, a_status>>
    /\ UNCHANGED <<tvars, svars, ovars>>

\* the try body runs: it returns the response or raises
ApiBody ==
    /\ a_pc = "body"
    /\ LET e == TryBody(a_req)
       IN IF e = <<>>
          THEN a_pc' = "responded" /\ a_status' = 200 /\ UNCHANGED a_exc
          ELSE a_pc' = "raised" /\ a_exc' = e /\ UNCHANGED a_status
    /\ UNCHANGED a_req
    /\ UNCHANGED <<tvars, svars, ovars>>

\* except Exception as e: raise HTTPException(status_code=500, detail=str(e))
ApiExcept ==
    /\ a_pc = "raised"
    /\ a_exc' = IF IsInstance(a_exc[1].cls, "Exception") THEN <<HTTPException(500)>>
                ELSE a_exc
    /\ a_pc' = "escaped"
    /\ UNCHANGED <<a_req, a_status>>
    /\ UNCHANGED <<tvars, svars, ovars>>

\* http_exception_handler(request, exc) for an HTTPException that left the
\* handler; any other exception is the server's 500
ApiExceptionHandler ==
    /\ a_pc = "escaped"
    /\ a_status' = IF a_exc[1].cls = "HTTPException" THEN a_exc[1].status_code ELSE 500
    /\ a_pc' = "responded"
    /\ UNCHANGED <<a_req, a_exc>>
    /\ UNCHANGED <<tvars, svars, ovars>>

\* the client has the response
ApiResponseTaken ==
    /\ a_pc = "responded"
    /\ a_pc' = "idle"
    /\ a_req' = NoRequest
    /\ a_exc' = <<>>
    /\ a_status' = 0
    /\ UNCHANGED <<tvars, svars, ovars>>

ANext ==
    \/ \E req \in ApiRequests : ApiRequest(req)
    \/ ApiBody
    \/ ApiExcept
    \/ ApiExceptionHandler
    \/ ApiResponseTaken

ApiResponded == a_pc = "responded"

\* C25: an HTTP error the handler raises on purpose reaches the client with
\* its own status code: 404 for an unknown customer or offer, 400 for an event
\* type outside view/click/redeem.
C25_PurposeErrorKeepsStatus ==
    /\ (ApiResponded /\ a_req.endpoint \in LookupEndpoints /\ a_req.data = "nothing")
          => a_status = 404
    /\ (ApiResponded /\ a_req.endpoint = "track_offer_event"
                     /\ a_req.event_type \notin ValidEvents)
          => a_status = 400

\* what the code gives: every exception raised in a handler body, an
\* HTTPException included, ends as a 500 response
RaisedInBodyBecomes500 ==
    (ApiResponded /\ TryBody(a_req) # <<>>) => a_status = 500

-----------------------------------------------------------------------------
(* predict: the rows of its result *)

\* a predict call that has returned and whose result the caller has not taken
PredictReturned(t) == calls[t].pc = "done" /\ calls[t].outcome = "returned"

\* C26: predict returns one result row for each row of its input transaction
\* data: the result has as many rows as the input, and each row carries a
\* segment and a segment_description.
C26_PredictRowPerInputRow ==
    \A t \in Threads :
        PredictReturned(t) =>
            /\ Len(calls[t].result) = Len(SegFrame(calls[t].data).rows)
            /\ \A i \in 1..Len(calls[t].result) :
                  /\ calls[t].result[i].segment \in 0..(n_clusters - 1)
                  /\ calls[t].result[i].segment_description # <<None>>

\* what the code does: one row for each customer of the input, in the order of
\* the customer ids, each with a segment and its description
PredictRowPerCustomer ==
    \A t \in Threads :
        PredictReturned(t) =>
            LET ids == SortAsc(CustomerIds(SegFrame(calls[t].data).rows))
            IN /\ Len(calls[t].result) = Len(ids)
               /\ \A i \in 1..Len(ids) :
                     /\ calls[t].result[i].customer_id = ids[i]
                     /\ calls[t].result[i].segment \in 0..(n_clusters - 1)
                     /\ calls[t].result[i].segment_description # <<None>>

\* predict has returned for a batch in which a customer has two transactions
PredictReturnedRepeatedCustomer ==
    \E t \in Threads :
        /\ PredictReturned(t)
        /\ Len(calls[t].result) < Len(SegFrame(calls[t].data).rows)

-----------------------------------------------------------------------------
(* get_segment_profiles between two training runs *)

\* get_segment_profiles has been called after a training run that returned
ProfilesAfterTrain ==
    train_call.outcome = "returned" /\ s_call.fn = "get_segment_profiles"

\* the profiles of the trained state: the centers of the model taken back to
\* original units by the scaler the training run fitted
TrainedProfiles == SegmentProfiles(trained_scaler, model, n_clusters)

\* C27: between two training runs the segment state is read-only:
\* get_segment_profiles called after train(D) returns the same centroids in
\* original units and the same descriptions, whatever predict calls on
\* whatever batches happened since the training run.
C27_ProfilesUnchangedByPredict ==
    ProfilesAfterTrain =>
        /\ s_call.outcome = "returned"
        /\ s_call.rows = TrainedProfiles.rows

\* what the code keeps: when the call returns, the segment ids and the
\* descriptions are those of the trained state (they are read from the model,
\* which predict does not touch); the centers in original units follow the
\* scaler of the last predict
ProfileDescriptionsAsTrained ==
    (ProfilesAfterTrain /\ s_call.outcome = "returned") =>
        /\ Len(s_call.rows) = Len(TrainedProfiles.rows)
        /\ \A j \in 1..Len(s_call.rows) :
              /\ s_call.rows[j].segment = TrainedProfiles.rows[j].segment
              /\ s_call.rows[j].description = TrainedProfiles.rows[j].description

-----------------------------------------------------------------------------
(* train: a call that fails *)

\* the step is a train call that raises (only train advances s_now)
TrainFails == s_now' # s_now /\ train_call'.outcome = "raised"

\* C28: a train call that fails (fewer customers than n_clusters, missing
\* columns, ...) leaves the trained state of the instance as it was before the
\* call: model, scaler parameters and last_trained are unchanged.
C28_FailedTrainLeavesState ==
    [][TrainFails =>
          /\ model' = model
          /\ scaler' = scaler
          /\ last_trained' = last_trained]_<<tvars, svars, ovars, avars>>

\* what the code keeps: a failing train never touches last_trained, and one
\* that fails in preprocess_data (missing columns) changes nothing; the scaler
\* is refitted or reset once engineer_features is reached, and the model is
\* replaced by an unfitted KMeans once KMeans.fit is reached
FailedTrainKeepsLastTrained ==
    [][TrainFails =>
          /\ last_trained' = last_trained
          /\ model' \in {model, UnfittedKMeans}
          /\ \/ model' = model /\ scaler' = scaler
             \/ scaler' = UnfittedScaler
             \/ \E d \in SegBatches : scaler' = FittedOn[d]]_<<tvars, svars, ovars, avars>>

-----------------------------------------------------------------------------
(* generate_offers: whose feature row a customer is evaluated on *)

\* C29: in generate_offers the rules and scores for a customer are evaluated
\* on that same customer's engineered feature row and profile, also when
\* segment_data covers only some of the customers.
C29_OwnFeatureRow ==
    OffersDone =>
        \A i \in 1..Len(o_calls) :
            /\ o_calls[i].features = OwnFeatures(o_calls[i].customer_id)
            /\ o_calls[i].customer.customer_id = o_calls[i].customer_id

\* what the code does: the i-th row of the merged frame, whose index label is
\* its position, is evaluated on the i-th row of the features, which belongs
\* to the i-th customer of customer_data
FeatureRowByMergedPosition ==
    OffersDone =>
        LET processed_data == RecPreprocess(o_customer_data, o_now).rows
            features == RecEngineerFeatures(processed_data)
        IN \A i \in 1..Len(o_calls) :
              /\ o_calls[i].features = features[i]
              /\ o_calls[i].features = OwnFeatures(processed_data[i].customer_id)

\* generate_offers has evaluated a customer on the feature row of another one
EvaluatedOnAnotherRow ==
    /\ OffersDone
    /\ \E i \in 1..Len(o_calls) :
          o_calls[i].features # OwnFeatures(o_calls[i].customer_id)

-----------------------------------------------------------------------------
(* load_model: n_clusters of the loading instance *)

\* C30: after load_model the instance's n_clusters equals the number of
\* centroids of the loaded model, also when the loading instance was built
\* with another n_clusters, so that predict and get_segment_profiles produce a
\* description for every segment id of the loaded model.
C30_LoadedClustersMatchModel ==
    LoadedTrained =>
        /\ n_clusters = Len(model.centers)
        /\ (calls["A"].pc = "done" /\ calls["A"].outcome = "returned") =>
              \A i \in 1..Len(calls["A"].result) :
                  calls["A"].result[i].segment_description # <<None>>
        /\ (s_call.fn = "get_segment_profiles" /\ scaler.fitted) =>
              /\ s_call.outcome = "returned"
              /\ Len(s_call.rows) = Len(model.centers)

\* what the code does: load_model restores model_params, which holds the
\* n_clusters the model was trained with, and leaves self.n_clusters at the
\* value the loading instance was built with
LoadedParamsMatchModel ==
    LoadedTrained =>
        /\ model_params = Len(model.centers)
        /\ model_params = saver.n_clusters

\* a model has been loaded into an instance built with another n_clusters
LoadedWithOtherClusters == LoadedTrained /\ n_clusters # Len(model.centers)

-----------------------------------------------------------------------------
(* Specifications *)

vars == <<tvars, svars, ovars, avars>>

InitTransform == TInit /\ SInit /\ OInit /\ AInit /\ n_clusters = 2
NextTransform == TNext
SpecTransform == InitTransform /\ [][NextTransform]_vars

InitSeg == TInit /\ SInit /\ OInit /\ AInit
NextSeg == SNext
SpecSeg == InitSeg /\ [][NextSeg]_vars

InitSegSerial == TInit /\ SInit /\ OInit /\ AInit
NextSegSerial == SerialNext
SpecSegSerial == InitSegSerial /\ [][NextSegSerial]_vars

\* train, predict and get_segment_profiles of one caller, nothing else
InitSegProfiles == TInit /\ SInit /\ OInit /\ AInit
NextSegProfiles ==
    \/ \E d \in SegBatches : Train(d)
    \/ \E d \in SegBatches : PredictBegin("A", d)
    \/ PredictFit("A")
    \/ PredictFinish("A")
    \/ PredictReturn("A")
    \/ GetSegmentProfiles
    \/ SCallTaken
SpecSegProfiles == InitSegProfiles /\ [][NextSegProfiles]_vars

InitDescribe == TInit /\ DescribeInit /\ OInit /\ AInit
NextDescribe == GetSegmentDescriptionsCall \/ SCallTaken
SpecDescribe == InitDescribe /\ [][NextDescribe]_vars

InitPreprocess == TInit /\ SInit /\ OInit /\ AInit
NextPreprocess == PreprocessData \/ SCallTaken
SpecPreprocess == InitPreprocess /\ [][NextPreprocess]_vars

InitColumns == TInit /\ SInit /\ OInit /\ AInit
NextColumns ==
    \/ PreprocessDataColumns
    \/ SCallTaken
    \/ \E data \in RecColumnFrames, now \in Nows : RecPreprocessDataCall(data, now)
    \/ DirectTaken
SpecColumns == InitColumns /\ [][NextColumns]_vars

InitApi == TInit /\ SInit /\ OInit /\ AInit /\ n_clusters = 2
NextApi == ANext
SpecApi == InitApi /\ [][NextApi]_vars

InitOffers == TInit /\ SInit /\ OInit /\ AInit /\ n_clusters = 2
NextOffers == ONext
SpecOffers == InitOffers /\ [][NextOffers]_vars

====
